---- MODULE Spec2Model ----
(***************************************************************************)
(* A model of the CSS Controls extension (rioredwards/css-controls):       *)
(* number / keyword detection on one line of text (detection.ts), the      *)
(* commands that move the cursor or rewrite the line (commands.ts,         *)
(* extension.ts) and the adjustment-step state machine (extension.ts).     *)
(*                                                                         *)
(* A line is a sequence of one-character strings; columns are zero-based   *)
(* as in the source, so character i of the source is s[i + 1] here.        *)
(***************************************************************************)
EXTENDS Integers, Sequences, FiniteSets, TLC

VARIABLES
  docLines,            \* the lines of the document of the active editor
  docLanguageId,       \* document.languageId
  cursorLine,          \* editor.selection.active.line
  cursorCol,           \* editor.selection.active.character
  activeEditor,        \* whether there is an active text editor
  activeLine,          \* state.activeLine, Undefined or a line number
  isEnabled,           \* state.isEnabled
  enableInlineButtons, \* state.enableInlineButtons
  currentStep,         \* the module-level currentStep of extension.ts
  tailwindLastIndex,   \* TAILWIND_NUMBER_REGEX.lastIndex between calls
  last,                \* what the most recent command or event saw and did
  nav,                 \* the run of jumps in one direction, or of adjustments
                       \* of one keyword in one direction, that is under way
  edits                \* how many Tailwind classes have been rewritten

vars == <<docLines, docLanguageId, cursorLine, cursorCol, activeEditor, activeLine, isEnabled,
          enableInlineButtons, currentStep, tailwindLastIndex, last, nav, edits>>

(***************************************************************************)
(* Characters and JavaScript string primitives                             *)
(***************************************************************************)
Digits == {"0", "1", "2", "3", "4", "5", "6", "7", "8", "9"}

LowerSeq == <<"a", "b", "c", "d", "e", "f", "g", "h", "i", "j", "k", "l", "m",
              "n", "o", "p", "q", "r", "s", "t", "u", "v", "w", "x", "y", "z">>

UpperSeq == <<"A", "B", "C", "D", "E", "F", "G", "H", "I", "J", "K", "L", "M",
              "N", "O", "P", "Q", "R", "S", "T", "U", "V", "W", "X", "Y", "Z">>

LowerLetters == {LowerSeq[i] : i \in DOMAIN LowerSeq}

UpperLetters == {UpperSeq[i] : i \in DOMAIN UpperSeq}

\* \s of a JavaScript regular expression, as far as one line can hold it
WhiteSpace == {" ", "\t"}

\* \w of a JavaScript regular expression
WordChars == LowerLetters \cup UpperLetters \cup Digits \cup {"_"}

\* [a-z-] under the i flag
NameChars == LowerLetters \cup UpperLetters \cup {"-"}

\* s.charAt(i): the empty string outside the string
Ch(s, i) == IF i >= 0 /\ i < Len(s) THEN s[i + 1] ELSE ""

\* s.substring(a)
SubstringFrom(s, a) == SubSeq(s, a + 1, Len(s))

\* s.substring(a, b)
Substring(s, a, b) == SubSeq(s, a + 1, b)

LowerChar(c) ==
  IF c \in UpperLetters
    THEN LowerSeq[CHOOSE i \in DOMAIN UpperSeq : UpperSeq[i] = c]
    ELSE c

UpperChar(c) ==
  IF c \in LowerLetters
    THEN UpperSeq[CHOOSE i \in DOMAIN LowerSeq : LowerSeq[i] = c]
    ELSE c

\* s.toLowerCase()
ToLowerCase(s) == [i \in 1..Len(s) |-> LowerChar(s[i])]

ToUpperCase(s) == [i \in 1..Len(s) |-> UpperChar(s[i])]

\* s.startsWith(p, i)
StartsWithAt(s, p, i) ==
  /\ i >= 0
  /\ i + Len(p) <= Len(s)
  /\ \A k \in 1..Len(p) : s[i + k] = p[k]

\* s.indexOf(p): the least offset at which p occurs in s, -1 when there is none
RECURSIVE IndexOfFrom(_, _, _)
IndexOfFrom(s, p, i) ==
  IF i + Len(p) > Len(s)
    THEN -1
    ELSE IF StartsWithAt(s, p, i) THEN i ELSE IndexOfFrom(s, p, i + 1)

IndexOf(s, p) == IndexOfFrom(s, p, 0)

\* the end of the longest run of characters of `set` that starts at offset i
RECURSIVE RunEnd(_, _, _)
RunEnd(s, i, set) == IF Ch(s, i) \in set THEN RunEnd(s, i + 1, set) ELSE i

\* s.trim(), for the characters of WhiteSpace
RECURSIVE TrimEnd(_)
TrimEnd(s) ==
  IF Len(s) > 0 /\ s[Len(s)] \in WhiteSpace THEN TrimEnd(SubSeq(s, 1, Len(s) - 1)) ELSE s

Trim(s) == TrimEnd(SubstringFrom(s, RunEnd(s, 0, WhiteSpace)))

\* Math.abs
Abs(x) == IF x < 0 THEN 0 - x ELSE x

(***************************************************************************)
(* constants.ts                                                            *)
(***************************************************************************)
FlexStart == <<"f", "l", "e", "x", "-", "s", "t", "a", "r", "t">>

FlexEnd == <<"f", "l", "e", "x", "-", "e", "n", "d">>

Center == <<"c", "e", "n", "t", "e", "r">>

SpaceBetween == <<"s", "p", "a", "c", "e", "-", "b", "e", "t", "w", "e", "e", "n">>

SpaceAround == <<"s", "p", "a", "c", "e", "-", "a", "r", "o", "u", "n", "d">>

SpaceEvenly == <<"s", "p", "a", "c", "e", "-", "e", "v", "e", "n", "l", "y">>

Stretch == <<"s", "t", "r", "e", "t", "c", "h">>

Baseline == <<"b", "a", "s", "e", "l", "i", "n", "e">>

Auto == <<"a", "u", "t", "o">>

JustifyContent == <<"j", "u", "s", "t", "i", "f", "y", "-", "c", "o", "n", "t", "e", "n", "t">>

AlignItems == <<"a", "l", "i", "g", "n", "-", "i", "t", "e", "m", "s">>

AlignSelf == <<"a", "l", "i", "g", "n", "-", "s", "e", "l", "f">>

Important == <<"i", "m", "p", "o", "r", "t", "a", "n", "t">>

BangImportant == <<" ", "!", "i", "m", "p", "o", "r", "t", "a", "n", "t">>


\* the alternatives of (px|rem|em|vh|vw|%|ch|fr), in the order the pattern tries them
CssUnits == <<<<"p", "x">>,
             <<"r", "e", "m">>,
             <<"e", "m">>,
             <<"v", "h">>,
             <<"v", "w">>,
             <<"%">>,
             <<"c", "h">>,
             <<"f", "r">>>>

PROPERTY_VALUES ==
  (JustifyContent :>
     <<FlexStart, FlexEnd, Center, SpaceBetween, SpaceAround, SpaceEvenly, Stretch>>)
  @@ (AlignItems :> <<FlexStart, FlexEnd, Center, Baseline, Stretch>>)
  @@ (AlignSelf :> <<Auto, FlexStart, FlexEnd, Center, Baseline, Stretch>>)

\* a test every language passes
isAnyLanguage(languageId) == TRUE

isCssLikeLanguage(languageId) == languageId \in {"css", "scss", "less"}

isHtmlOrJsxLanguage(languageId) ==
  languageId \in {"html", "javascriptreact", "typescriptreact"}

(***************************************************************************)
(* The pattern of CSS numbers                                              *)
(***************************************************************************)
\* CSS_NUMBER_REGEX = /-?\d*\.?\d+(px|rem|em|vh|vw|%|ch|fr)?/g
\* the end of (px|rem|em|vh|vw|%|ch|fr)? tried at offset e: the first
\* alternative that matches, nothing when none does
CssUnitEnd(s, e) ==
  IF \E u \in DOMAIN CssUnits : StartsWithAt(s, CssUnits[u], e)
    THEN LET u == CHOOSE x \in DOMAIN CssUnits :
                    /\ StartsWithAt(s, CssUnits[x], e)
                    /\ \A y \in 1..(x - 1) : ~StartsWithAt(s, CssUnits[y], e)
         IN  e + Len(CssUnits[u])
    ELSE e

\* the end of the match that starts at offset i, -1 when none starts there
\* j is the offset after -?, k the end of the first \d*
CssNumberEndFrom(s, j, k) ==
  IF Ch(s, k) = "." /\ Ch(s, k + 1) \in Digits
    THEN CssUnitEnd(s, RunEnd(s, k + 1, Digits))
    ELSE IF k > j THEN CssUnitEnd(s, k) ELSE -1

CssNumberEndAfterSign(s, j) == CssNumberEndFrom(s, j, RunEnd(s, j, Digits))

CssNumberEnd(s, i) == CssNumberEndAfterSign(s, IF Ch(s, i) = "-" THEN i + 1 ELSE i)

\* the exec loop from lastIndex = from: every match, left to right
RECURSIVE CssNumberMatches(_, _)
\* a loop that looks for the next match one character after the start of the
\* last one
CssNumberMatchesOverlapping(s, from, e) ==
  IF e >= 0
    THEN <<[start |-> from, end |-> e]>> \o CssNumberMatches(s, from + 1)
    ELSE CssNumberMatches(s, from + 1)

\* one turn of the loop: e is the end of the match tried at `from`
CssNumberMatchesWith(s, from, e) ==
  IF e >= 0
    THEN <<[start |-> from, end |-> e]>> \o CssNumberMatches(s, e)
    ELSE CssNumberMatches(s, from + 1)

CssNumberMatches(s, from) ==
  IF from >= Len(s)
    THEN <<>>
    ELSE CssNumberMatchesWith(s, from, CssNumberEnd(s, from))

(***************************************************************************)
(* The pattern of Tailwind utility classes with numbers                    *)
(***************************************************************************)
\* TAILWIND_NUMBER_REGEX = /\b([a-z]+(?:-[a-z]+)*)-(\d+\.?\d*)([a-z]*)/g
\* the end of [a-z]+(?:-[a-z]+)* read greedily from the end p of a word
RECURSIVE TailwindPrefixEnd(_, _)
TailwindPrefixEnd(s, p) ==
  IF Ch(s, p) = "-" /\ Ch(s, p + 1) \in LowerLetters
    THEN TailwindPrefixEnd(s, RunEnd(s, p + 1, LowerLetters))
    ELSE p

\* \b before a lowercase letter at offset i
WordBoundaryAt(s, i) == i = 0 \/ Ch(s, i - 1) \notin WordChars

\* the match that starts at offset i: index, the end of group 1, the span of
\* group 2 and the end of the match; index = -1 when no match starts there
\* p is the end of group 1, d2 the end of group 2
TailwindMatchOf(s, i, p, d2) ==
  IF /\ Ch(s, i) \in LowerLetters
     /\ WordBoundaryAt(s, i)
     /\ Ch(s, p) = "-"
     /\ Ch(s, p + 1) \in Digits
    THEN [index |-> i, prefixEnd |-> p, numberStart |-> p + 1,
          numberEnd |-> d2, end |-> RunEnd(s, d2, LowerLetters)]
    ELSE [index |-> -1, prefixEnd |-> -1, numberStart |-> -1,
          numberEnd |-> -1, end |-> -1]

\* the end of \d+\.?\d* whose \d+ ends at offset d
TailwindNumberEnd(s, d) == IF Ch(s, d) = "." THEN RunEnd(s, d + 1, Digits) ELSE d

TailwindMatchFromPrefix(s, i, p) ==
  TailwindMatchOf(s, i, p, TailwindNumberEnd(s, RunEnd(s, p + 1, Digits)))

TailwindMatchAt(s, i) ==
  TailwindMatchFromPrefix(s, i, TailwindPrefixEnd(s, RunEnd(s, i, LowerLetters)))

\* the exec loop from lastIndex = from: every match, left to right
RECURSIVE TailwindMatches(_, _)
\* one turn of the loop: m is the match tried at `from`
TailwindMatchesWith(s, from, m) ==
  IF m.index >= 0
    THEN <<m>> \o TailwindMatches(s, m.end)
    ELSE TailwindMatches(s, from + 1)

TailwindMatches(s, from) ==
  IF from >= Len(s)
    THEN <<>>
    ELSE TailwindMatchesWith(s, from, TailwindMatchAt(s, from))

(***************************************************************************)
(* detection.ts: number ranges                                             *)
(***************************************************************************)
\* `undefined` for an optional column or line, and `null` for a range
Undefined == 0 - 1

NoRange == [start |-> Undefined, end |-> Undefined]

\* document.lineAt(lineNumber).text of a document given as its lines
LineAt(doc, lineNumber) == doc[lineNumber + 1]

\* a scan that starts where the last one stopped
ScanFromLastIndex(lastIndex) == lastIndex

\* the lastIndex both scan loops start from: the code resets it to 0
ScanStart(lastIndex) == 0

RangeOf(m) == [start |-> m.numberStart, end |-> m.numberEnd]

\* ranges.push(new vscode.Range(...)) for every match
RangesOf(ms) == [k \in 1..Len(ms) |-> RangeOf(ms[k])]

getNumberRangesOnLine(doc, languageId, lineNumber) ==
  IF isCssLikeLanguage(languageId)
    \* CSS_NUMBER_REGEX.lastIndex is 0 between calls: its only loop runs out
    THEN CssNumberMatches(LineAt(doc, lineNumber), ScanStart(0))
    ELSE IF isHtmlOrJsxLanguage(languageId)
           THEN RangesOf(TailwindMatches(LineAt(doc, lineNumber),
                                         ScanStart(tailwindLastIndex)))
           ELSE <<>>

\* refCol >= range.start.character && refCol <= range.end.character
ContainsColumn(range, refCol) == refCol >= range.start /\ refCol <= range.end

\* twice Math.abs((start + end) / 2 - refCol): the halves stay integers
CenterDist2(range, refCol) == Abs(range.start + range.end - 2 * refCol)

\* the loop with a distance that replaces best when it is not larger
RECURSIVE ClosestByCenterLast(_, _, _, _)
ClosestByCenterLast(ranges, k, best, refCol) ==
  IF k > Len(ranges)
    THEN best
    ELSE IF CenterDist2(ranges[k], refCol) <= CenterDist2(ranges[best], refCol)
           THEN ClosestByCenterLast(ranges, k + 1, k, refCol)
           ELSE ClosestByCenterLast(ranges, k + 1, best, refCol)

\* the loop over ranges.slice(1): a strictly smaller distance replaces best
RECURSIVE ClosestByCenter(_, _, _, _)
ClosestByCenter(ranges, k, best, refCol) ==
  IF k > Len(ranges)
    THEN best
    ELSE IF CenterDist2(ranges[k], refCol) < CenterDist2(ranges[best], refCol)
           THEN ClosestByCenter(ranges, k + 1, k, refCol)
           ELSE ClosestByCenter(ranges, k + 1, best, refCol)

\* the index (from 1) in `ranges` of the range the selection rule picks:
\* the first one that contains refCol, else the closest by centre
ClosestIndex(ranges, refCol) ==
  IF \E k \in 1..Len(ranges) : ContainsColumn(ranges[k], refCol)
    THEN CHOOSE k \in 1..Len(ranges) :
           /\ ContainsColumn(ranges[k], refCol)
           /\ \A j \in 1..(k - 1) : ~ContainsColumn(ranges[j], refCol)
    ELSE ClosestByCenter(ranges, 2, 1, refCol)

\* refCol = referenceColumn ?? 0
RefCol(referenceColumn) == IF referenceColumn = Undefined THEN 0 ELSE referenceColumn

\* the choice among the ranges of the line
ClosestRange(ranges, refCol) ==
  IF Len(ranges) = 0 THEN NoRange ELSE ranges[ClosestIndex(ranges, refCol)]

findClosestNumberRangeOnLine(doc, languageId, lineNumber, referenceColumn) ==
  IF lineNumber < 0 \/ lineNumber >= Len(doc)
    THEN NoRange
    ELSE ClosestRange(getNumberRangesOnLine(doc, languageId, lineNumber),
                      RefCol(referenceColumn))

(***************************************************************************)
(* detection.ts: property values                                           *)
(***************************************************************************)
\* propertyValueRegex = /([a-z-]+)\s*:\s*([^;]+?)(?:\s*;|\s*$)/gi

NoPropertyMatch ==
  [index |-> Undefined, nameEnd |-> Undefined, valueFrom |-> Undefined,
   valueTo |-> Undefined, end |-> Undefined]

\* the offset of the first ";" at or after offset i, Len(s) when there is none
RECURSIVE TerminatorAt(_, _)
TerminatorAt(s, i) ==
  IF i >= Len(s) \/ s[i + 1] = ";" THEN i ELSE TerminatorAt(s, i + 1)

\* the end of s[from .. q) without its trailing white space, never before from + 1
RECURSIVE LazyValueEnd(_, _, _)
LazyValueEnd(s, from, q) ==
  IF q > from + 1 /\ Ch(s, q - 1) \in WhiteSpace THEN LazyValueEnd(s, from, q - 1) ELSE q

\* the match that starts at offset i: index, the end of group 1, the span of
\* group 2 and the end of the match; index is Undefined when none starts there
\* n is the end of [a-z-]+, w the offset of ":", v0 the end of the white
\* space after it, q the offset of the terminator and e the end of the match
PropertyMatchOf(s, i, n, w, v0, q, e) ==
  IF n = i \/ Ch(s, w) # ":"
    THEN NoPropertyMatch
    ELSE IF v0 < q
           \* \s* takes all the white space, the lazy group stops at the
           \* first place from which only white space precedes ";" or the end
           THEN [index |-> i, nameEnd |-> n, valueFrom |-> v0,
                 valueTo |-> LazyValueEnd(s, v0, q), end |-> e]
           \* nothing but white space before ";" or the end: \s* gives one
           \* white-space character back to the group, which needs one
           ELSE IF v0 > w + 1
                  THEN [index |-> i, nameEnd |-> n, valueFrom |-> v0 - 1,
                        valueTo |-> v0, end |-> e]
                  ELSE NoPropertyMatch

PropertyMatchToTerminator(s, i, n, w, v0, q) ==
  PropertyMatchOf(s, i, n, w, v0, q, IF q < Len(s) THEN q + 1 ELSE q)

PropertyMatchFromValue(s, i, n, w, v0) ==
  PropertyMatchToTerminator(s, i, n, w, v0, TerminatorAt(s, v0))

PropertyMatchFromColon(s, i, n, w) ==
  PropertyMatchFromValue(s, i, n, w, RunEnd(s, w + 1, WhiteSpace))

PropertyMatchFromName(s, i, n) == PropertyMatchFromColon(s, i, n, RunEnd(s, n, WhiteSpace))

PropertyMatchAt(s, i) == PropertyMatchFromName(s, i, RunEnd(s, i, NameChars))

\* the exec loop from lastIndex = from: every match, left to right
RECURSIVE PropertyMatches(_, _)
\* a loop of a pattern that matches the empty string where the pattern of
\* the code does not match, and is moved on by one character after it
PropertyMatchesWithEmpty(s, from, m) ==
  IF m.index >= 0
    THEN <<m>> \o PropertyMatches(s, m.end)
    ELSE <<[index |-> from, nameEnd |-> from, valueFrom |-> from,
            valueTo |-> from, end |-> from]>>
         \o PropertyMatches(s, from + 1)

\* one turn of the loop: m is the match tried at `from`
PropertyMatchesWith(s, from, m) ==
  IF m.index >= 0
    THEN <<m>> \o PropertyMatches(s, m.end)
    ELSE PropertyMatches(s, from + 1)

PropertyMatches(s, from) ==
  IF from >= Len(s)
    THEN <<>>
    ELSE PropertyMatchesWith(s, from, PropertyMatchAt(s, from))

\* the length of the match of /^!\s*important/i on r, Undefined when none
\* w is the end of the white space after "!"
ImportantAfterBangAt(r, w) ==
  IF Ch(r, 0) = "!" /\ StartsWithAt(ToLowerCase(r), Important, w)
    THEN w + Len(Important)
    ELSE Undefined

ImportantAfterBang(r) == ImportantAfterBangAt(r, RunEnd(r, 1, WhiteSpace))

\* the length of the match of /^\s*!\s*important/i on r, Undefined when none
\* b is the end of the leading white space, m the length matched from "!"
ImportantModifierOf(b, m) == IF m = Undefined THEN Undefined ELSE b + m

ImportantModifierAt(r, b) == ImportantModifierOf(b, ImportantAfterBang(SubstringFrom(r, b)))

ImportantModifier(r) == ImportantModifierAt(r, RunEnd(r, 0, WhiteSpace))

\* fullValueLower === v || fullValueLower.startsWith(v + " ") || ...startsWith(v + "!")
MemberMatches(fullValueLower, validValueLower) ==
  \/ fullValueLower = validValueLower
  \/ StartsWithAt(fullValueLower, validValueLower \o <<" ">>, 0)
  \/ StartsWithAt(fullValueLower, validValueLower \o <<"!">>, 0)

\* valueStart: the colon is searched again from the end of the property name
\* colonMatch = afterColon.match(/:\s*/): its index and the length of its text
ValueStartOf(colonIndex, afterColon, colonAt) ==
  colonIndex + colonAt + (RunEnd(afterColon, colonAt + 1, WhiteSpace) - colonAt)

ValueStartAfter(colonIndex, afterColon) ==
  ValueStartOf(colonIndex, afterColon, IndexOf(afterColon, <<":">>))

ValueStartFrom(lineText, colonIndex) ==
  ValueStartAfter(colonIndex, SubstringFrom(lineText, colonIndex))

ValueStart(lineText, m) == ValueStartFrom(lineText, m.index + (m.nameEnd - m.index))

\* valueText.toLowerCase().indexOf(validValueLower)
ValueIndex(lineText, valueStart, validValue) ==
  IndexOf(ToLowerCase(SubstringFrom(lineText, valueStart)), ToLowerCase(validValue))

\* actualEnd
\* remaining is valueText.substring(valueWordEnd), important the length of
\* importantMatch[0]; importantMatch.index is 0
ActualEndOf(valueStart, valueIndex, validValue, remaining, important) ==
  IF Ch(remaining, 0) = "!" /\ important # Undefined
    THEN valueStart + valueIndex + 0 + important
    ELSE valueStart + valueIndex + Len(validValue)

ActualEndWith(valueStart, valueIndex, validValue, remaining) ==
  ActualEndOf(valueStart, valueIndex, validValue, remaining, ImportantAfterBang(remaining))

ActualEnd(lineText, valueStart, valueIndex, validValue) ==
  ActualEndWith(valueStart, valueIndex, validValue,
                SubstringFrom(SubstringFrom(lineText, valueStart),
                              valueIndex + Len(validValue)))

\* the body of the for loop over validValues, from member k on: the entry
\* pushed to `matches`, or <<>> when no member is accepted
RECURSIVE MemberEntry(_, _, _, _, _, _)
\* one member: the entry when it is accepted, the next member otherwise
MemberEntryAt(lineText, property, validValues, fullValue, valueStart, k, validValue,
              valueIndex) ==
  IF MemberMatches(ToLowerCase(fullValue), ToLowerCase(validValue)) /\ valueIndex >= 0
    THEN <<[property |-> property,
            value    |-> validValue,
            start    |-> valueStart + valueIndex,
            end      |-> ActualEnd(lineText, valueStart, valueIndex, validValue)]>>
    ELSE MemberEntry(lineText, property, validValues, fullValue, valueStart, k + 1)

MemberEntry(lineText, property, validValues, fullValue, valueStart, k) ==
  IF k > Len(validValues)
    THEN <<>>
    ELSE MemberEntryAt(lineText, property, validValues, fullValue, valueStart, k,
                       validValues[k], ValueIndex(lineText, valueStart, validValues[k]))

\* the entry of one match of the pattern whose property is known
MatchEntry(lineText, m, property) ==
  MemberEntry(lineText, property, PROPERTY_VALUES[property],
              Trim(Substring(lineText, m.valueFrom, m.valueTo)),
              ValueStart(lineText, m), 1)

\* the while loop: `matches`, one entry per declaration of a known property
\* whose value is recognised
\* if (property in PROPERTY_VALUES): the entry of one match, <<>> when none
PropertyEntry(lineText, m, property) ==
  IF property \in DOMAIN PROPERTY_VALUES THEN MatchEntry(lineText, m, property) ELSE <<>>

RECURSIVE PropertyEntries(_, _, _)
PropertyEntries(lineText, ms, k) ==
  IF k > Len(ms)
    THEN <<>>
    ELSE PropertyEntry(lineText, ms[k],
                       ToLowerCase(Trim(Substring(lineText, ms[k].index, ms[k].nameEnd))))
         \o PropertyEntries(lineText, ms, k + 1)

PropertyValueMatches(lineText) == PropertyEntries(lineText, PropertyMatches(lineText, 0), 1)

NoPropertyInfo == [property |-> <<>>, value |-> <<>>, start |-> Undefined, end |-> Undefined]

\* the loop over `matches`: a containing match ends the loop, a strictly
\* closer one replaces bestMatch; best = 0 and bestDist2 = Undefined stand
\* for null and Infinity
RECURSIVE BestPropertyMatch(_, _, _, _, _)
BestPropertyMatch(matches, k, best, bestDist2, refCol) ==
  IF k > Len(matches)
    THEN best
    ELSE IF ContainsColumn(matches[k], refCol)
           THEN k
           ELSE IF bestDist2 = Undefined \/ CenterDist2(matches[k], refCol) < bestDist2
                  THEN BestPropertyMatch(matches, k + 1, k,
                                         CenterDist2(matches[k], refCol), refCol)
                  ELSE BestPropertyMatch(matches, k + 1, best, bestDist2, refCol)

\* the choice among the matches of the line
ClosestPropertyMatch(matches, refCol) ==
  IF Len(matches) = 0
    THEN NoPropertyInfo
    ELSE matches[BestPropertyMatch(matches, 1, 0, Undefined, refCol)]

\* the names `property in PROPERTY_VALUES` holds of although the table has no
\* such key: the properties an object literal inherits from Object.prototype
\* that match [a-z-]+ in lower case, which is "constructor" alone
InheritedNames == {<<"c", "o", "n", "s", "t", "r", "u", "c", "t", "o", "r">>}

\* property in PROPERTY_VALUES
InPropertyValues(property) ==
  property \in DOMAIN PROPERTY_VALUES \/ property \in InheritedNames

\* the TypeError of `for (const validValue of validValues)` when validValues
\* is the function PROPERTY_VALUES.constructor, which cannot be iterated
TypeError ==
  [property |-> <<"TypeError">>, value |-> <<>>, start |-> Undefined, end |-> Undefined]

\* the while loop comes to a declaration whose name is inherited
ScanThrowsAmong(lineText, ms) ==
  \E k \in 1..Len(ms) :
    /\ InPropertyValues(ToLowerCase(Trim(Substring(lineText, ms[k].index, ms[k].nameEnd))))
    /\ ToLowerCase(Trim(Substring(lineText, ms[k].index, ms[k].nameEnd)))
         \notin DOMAIN PROPERTY_VALUES

PropertyScanThrows(lineText) == ScanThrowsAmong(lineText, PropertyMatches(lineText, 0))

findClosestPropertyValueRangeOnLine(doc, languageId, lineNumber, referenceColumn) ==
  IF lineNumber < 0 \/ lineNumber >= Len(doc)
    THEN NoPropertyInfo
    ELSE IF ~isCssLikeLanguage(languageId)
           THEN NoPropertyInfo
           ELSE IF PropertyScanThrows(LineAt(doc, lineNumber))
                  THEN TypeError
                  ELSE ClosestPropertyMatch(PropertyValueMatches(LineAt(doc, lineNumber)),
                                            RefCol(referenceColumn))

(***************************************************************************)
(* extension.ts: the value mutators                                        *)
(***************************************************************************)
\* Step
Steps == {"tenth", "one", "ten"}

EmmetIncrement ==
  [tenth |-> "editor.emmet.action.incrementNumberByOneTenth",
   one   |-> "editor.emmet.action.incrementNumberByOne",
   ten   |-> "editor.emmet.action.incrementNumberByTen"]

EmmetDecrement ==
  [tenth |-> "editor.emmet.action.decrementNumberByOneTenth",
   one   |-> "editor.emmet.action.decrementNumberByOne",
   ten   |-> "editor.emmet.action.decrementNumberByTen"]

\* emmetCommand.includes("increment")
IsIncrement(emmetCommand) == emmetCommand \in {EmmetIncrement[s] : s \in Steps}

\* editBuilder.replace(range, text) on one line
ReplaceInLine(lineText, start, end, text) ==
  Substring(lineText, 0, start) \o text \o SubstringFrom(lineText, end)

\* the document with line lineNumber replaced
WithLine(doc, lineNumber, lineText) == [doc EXCEPT ![lineNumber + 1] = lineText]

\* an edit and "no edit"
NoEdit == [start |-> Undefined, end |-> Undefined, text |-> <<>>]

DigitSeq == <<"0", "1", "2", "3", "4", "5", "6", "7", "8", "9">>

DigitValue(c) == (CHOOSE d \in DOMAIN DigitSeq : DigitSeq[d] = c) - 1

\* the value of a run of decimal digits
RECURSIVE DigitsValue(_)
DigitsValue(ds) ==
  IF Len(ds) = 0 THEN 0
  ELSE 10 * DigitsValue(SubSeq(ds, 1, Len(ds) - 1)) + DigitValue(ds[Len(ds)])

\* Number.prototype.toString of a natural number
RECURSIVE NatToString(_)
NatToString(n) ==
  IF n < 10 THEN <<DigitSeq[n + 1]>> ELSE NatToString(n \div 10) \o <<DigitSeq[(n % 10) + 1]>>

\* isNaN(parseFloat(text)), for the texts a number range can hold
ParseFloatIsNaN(text) ==
  ~(\/ Ch(text, 0) \in Digits
    \/ Ch(text, 0) = "." /\ Ch(text, 1) \in Digits)

\* parseFloat(text) in tenths, for digits with at most one decimal digit
\* (the numbers of the lines the model starts from, and every number the
\* mutator writes)
ParseFloatTenthsAt(text, d) ==
  10 * DigitsValue(Substring(text, 0, d))
  + (IF Ch(text, d) = "." /\ Ch(text, d + 1) \in Digits
       THEN DigitValue(Ch(text, d + 1))
       ELSE 0)

ParseFloatTenths(text) == ParseFloatTenthsAt(text, RunEnd(text, 0, Digits))

\* stepAmount, in tenths
StepAmountTenths(step) == IF step = "tenth" THEN 1 ELSE IF step = "one" THEN 10 ELSE 100

\* newNumber.toFixed(1).replace(/\.0$/, ""), of a number given in tenths
\* the sign of a printed number
SignOf(tenths) == IF tenths < 0 THEN <<"-">> ELSE <<>>

\* the digits of a / 10 with one decimal digit, without a decimal digit 0
FixedOneStripped(a) ==
  IF a % 10 = 0
    THEN NatToString(a \div 10)
    ELSE NatToString(a \div 10) \o <<".">> \o NatToString(a % 10)

\* toFixed(1) alone, which keeps a decimal digit 0
ToFixedOne(tenths) ==
  SignOf(tenths) \o NatToString(Abs(tenths) \div 10) \o <<".">> \o NatToString(Abs(tenths) % 10)

ToFixedOneStripped(tenths) == SignOf(tenths) \o FixedOneStripped(Abs(tenths))

\* Math.round(newNumber).toString(), of a number given in tenths: halves
\* round towards plus infinity, and -0 prints as 0
\* Number.prototype.toString of an integer
IntToString(r) == IF r < 0 THEN <<"-">> \o NatToString(0 - r) ELSE NatToString(r)

RoundToString(tenths) == IntToString((tenths + 5) \div 10)

\* a new number that grows whatever the direction of the command
NewNumberGrowing(number, stepAmount, emmetCommand) == number + stepAmount

\* newNumber, in tenths
NewNumber(number, stepAmount, emmetCommand) ==
  IF IsIncrement(emmetCommand) THEN number + stepAmount ELSE number - stepAmount

\* stepAmount === 0.1 ? newNumber.toFixed(1).replace(/\.0$/, "")
\*                    : Math.round(newNumber).toString()
FormatNumber(newNumber, stepAmount) ==
  IF stepAmount = 1 THEN ToFixedOneStripped(newNumber) ELSE RoundToString(newNumber)

NewNumberTextOf(number, stepAmount, emmetCommand) ==
  FormatNumber(NewNumber(number, stepAmount, emmetCommand), stepAmount)

\* newNumberText
NewNumberText(numberText, step, emmetCommand) ==
  NewNumberTextOf(ParseFloatTenths(numberText), StepAmountTenths(step), emmetCommand)

\* the re-scan loop: the first match whose number span is targetRange, from
\* match k on; NoClass when the loop runs to its end
NoClass == [index |-> Undefined, prefixEnd |-> Undefined, numberStart |-> Undefined,
            numberEnd |-> Undefined, end |-> Undefined]

RECURSIVE FindClass(_, _, _)
FindClass(ms, k, targetRange) ==
  IF k > Len(ms)
    THEN NoClass
    ELSE IF ms[k].numberStart = targetRange.start /\ ms[k].numberEnd = targetRange.end
           THEN ms[k]
           ELSE FindClass(ms, k + 1, targetRange)

\* the edit of applyTailwindNumberAdjustment: the whole class when the re-scan
\* finds it, the number alone otherwise
\* the class of targetRange on the line; lastIndex is 0 when the re-scan
\* starts (the scan that found targetRange ran out) and is set to 0 again
ClassMatch(lineText, targetRange) ==
  FindClass(TailwindMatches(lineText, ScanStart(0)), 1, targetRange)

\* newText = `${prefix}-${newNumberText}${suffix}` over the whole class, or
\* newNumberText over the number (the fallback)
\* the text of the whole class written over the number span alone
TailwindEditNumberSpan(lineText, targetRange, classMatch, newNumberText) ==
  [start |-> targetRange.start, end |-> targetRange.end,
   text  |-> IF classMatch.index # Undefined
               THEN Substring(lineText, classMatch.index, classMatch.prefixEnd)
                    \o <<"-">> \o newNumberText
                    \o Substring(lineText, classMatch.numberEnd, classMatch.end)
               ELSE newNumberText]

TailwindEditOf(lineText, targetRange, classMatch, newNumberText) ==
  IF classMatch.index # Undefined
    THEN [start |-> classMatch.index, end |-> classMatch.end,
          text  |-> Substring(lineText, classMatch.index, classMatch.prefixEnd)
                    \o <<"-">> \o newNumberText
                    \o Substring(lineText, classMatch.numberEnd, classMatch.end)]
    ELSE [start |-> targetRange.start, end |-> targetRange.end,
          text  |-> newNumberText]

TailwindEditFor(lineText, targetRange, step, emmetCommand, numberText) ==
  IF ParseFloatIsNaN(numberText)
    THEN NoEdit
    ELSE TailwindEditOf(lineText, targetRange, ClassMatch(lineText, targetRange),
                        NewNumberText(numberText, step, emmetCommand))

TailwindEdit(lineText, targetRange, step, emmetCommand) ==
  TailwindEditFor(lineText, targetRange, step, emmetCommand,
                  Substring(lineText, targetRange.start, targetRange.end))

\* TAILWIND_NUMBER_REGEX.lastIndex when applyTailwindNumberAdjustment returns:
\* the end of the class the loop broke out on, 0 after a loop that ran out,
\* unchanged when the number did not parse
LastIndexAfterClass(classMatch) ==
  IF classMatch.index # Undefined THEN classMatch.end ELSE 0

TailwindLastIndexAfter(lineText, targetRange, lastIndex) ==
  IF ParseFloatIsNaN(Substring(lineText, targetRange.start, targetRange.end))
    THEN lastIndex
    ELSE LastIndexAfterClass(ClassMatch(lineText, targetRange))

\* validValues.findIndex(v => v.toLowerCase() === value.toLowerCase()), from 1;
\* 0 stands for -1
FindIndex(validValues, value) ==
  IF \E k \in DOMAIN validValues : ToLowerCase(validValues[k]) = ToLowerCase(value)
    THEN CHOOSE k \in DOMAIN validValues :
           /\ ToLowerCase(validValues[k]) = ToLowerCase(value)
           /\ \A j \in 1..(k - 1) : ToLowerCase(validValues[j]) # ToLowerCase(value)
    ELSE 0

\* newIndex = (currentIndex + direction + length) % length, on indices from 1
\* an index that stays at the ends of the family instead of wrapping
NewIndexClamped(currentIndex, direction, length) ==
  IF currentIndex + direction \in 1..length THEN currentIndex + direction ELSE currentIndex

NewIndex(currentIndex, direction, length) ==
  (((currentIndex - 1) + direction + length) % length) + 1

\* the end of the replaced span: through the modifier when one follows the range
\* importantMatch.index is 0, important the length of importantMatch[0]
PropertyEditEndOf(rangeEnd, important) ==
  IF important # Undefined THEN rangeEnd + 0 + important ELSE rangeEnd

\* an edit that stops at the end of the range, whatever follows it
PropertyEditEndAtRange(lineText, rangeEnd) == rangeEnd

PropertyEditEnd(lineText, rangeEnd) ==
  PropertyEditEndOf(rangeEnd, ImportantModifier(SubstringFrom(lineText, rangeEnd)))

\* a replacement that drops the modifier
PropertyReplacementBare(lineText, rangeEnd, newValue) == newValue

\* replacement = hasImportant ? `${newValue} !important` : newValue
PropertyReplacement(lineText, rangeEnd, newValue) ==
  IF ImportantModifier(SubstringFrom(lineText, rangeEnd)) # Undefined
    THEN newValue \o BangImportant
    ELSE newValue

\* newValue of a property value cycled in `direction` (1 or -1); <<>> when the
\* property has no values or the value is not one of them
\* validValues = PROPERTY_VALUES[property], <<>> for undefined
ValidValues(property) ==
  IF property \in DOMAIN PROPERTY_VALUES THEN PROPERTY_VALUES[property] ELSE <<>>

NewValueAt(validValues, currentIndex, direction) ==
  IF Len(validValues) = 0 \/ currentIndex = 0
    THEN <<>>
    ELSE validValues[NewIndex(currentIndex, direction, Len(validValues))]

NewValueAmong(validValues, value, direction) ==
  NewValueAt(validValues, FindIndex(validValues, value), direction)

NewPropertyValue(propertyInfo, direction) ==
  NewValueAmong(ValidValues(propertyInfo.property), propertyInfo.value, direction)

\* the edit of applyPropertyValueAdjustment and of the cycle command
PropertyEditOf(lineText, propertyInfo, newValue) ==
  IF newValue = <<>>
    THEN NoEdit
    ELSE [start |-> propertyInfo.start,
          end   |-> PropertyEditEnd(lineText, propertyInfo.end),
          text  |-> PropertyReplacement(lineText, propertyInfo.end, newValue)]

PropertyEdit(lineText, propertyInfo, direction) ==
  PropertyEditOf(lineText, propertyInfo, NewPropertyValue(propertyInfo, direction))

\* a cursor left after the new value
PropertyCursorAtEnd(propertyInfo, newValue) == propertyInfo.start + Len(newValue)

\* a cursor left at the start of the line
PropertyCursorAtLineStart(propertyInfo, newValue) == 0

\* newRange.start: the selection both keyword mutators set after the edit
PropertyCursorAfter(propertyInfo, newValue) == propertyInfo.start

(***************************************************************************)
(* The commands and events as actions                                      *)
(***************************************************************************)
\* `last` of a command: its name and argument, the state it started from,
\* the candidate kind it acted on with its range (and, of a keyword, its
\* property and value), its edit and the host commands it ran
LastWith(op, arg, target, range, info, edit, emmet) ==
  [op |-> op, arg |-> arg, doc |-> docLines, cursorLine |-> cursorLine,
   cursorCol |-> cursorCol, step |-> currentStep, target |-> target,
   range |-> range, info |-> info, edit |-> edit, emmet |-> emmet,
   lastIndex |-> tailwindLastIndex, isEnabled |-> isEnabled,
   enableInlineButtons |-> enableInlineButtons]

LastOf(op, arg, target, range, edit, emmet) ==
  LastWith(op, arg, target, range, NoPropertyInfo, edit, emmet)

\* `last` of an event of the host: of the state, the flags are kept
LastEvent(op) ==
  [op |-> op, arg |-> Undefined, doc |-> <<>>, cursorLine |-> Undefined,
   cursorCol |-> Undefined, step |-> "one", target |-> "none",
   range |-> NoRange, info |-> NoPropertyInfo, edit |-> NoEdit, emmet |-> <<>>,
   lastIndex |-> Undefined, isEnabled |-> isEnabled,
   enableInlineButtons |-> enableInlineButtons]

\* the document after an edit of line lineNumber
ApplyEdit(d, lineNumber, edit) ==
  IF edit = NoEdit
    THEN d
    ELSE WithLine(d, lineNumber,
                  ReplaceInLine(LineAt(d, lineNumber), edit.start, edit.end, edit.text))

\* where the host may leave a cursor that an edit of [start, end) encloses:
\* in place while it is inside the new text, or at the end of the new text
HostCursorAfterEdit(col, edit) ==
  IF edit = NoEdit \/ col < edit.start \/ col > edit.end
    THEN {col}
    ELSE {IF col < edit.start + Len(edit.text) THEN col ELSE edit.start + Len(edit.text),
          edit.start + Len(edit.text)}

\* no run of jumps under way
NoNav == [dir |-> "none", origin |-> 0, onOrigin |-> FALSE, count |-> 0, visited |-> {}]

\* the run of jumps after one more jump in `direction` from candidate `from`
\* to candidate `to` on a line of n candidates: a jump in the direction of a
\* run of fewer than n jumps extends it, any other jump starts a new run at
\* `from` (onOrigin: the cursor was inside it)
NavAfter(direction, from, to, inside, n) ==
  IF nav.dir = direction /\ nav.count < n
    THEN [nav EXCEPT !.count = @ + 1, !.visited = @ \cup {to}]
    ELSE [dir |-> direction, origin |-> from, onOrigin |-> inside, count |-> 1,
          visited |-> {to}]

\* the bound of the model on the numbers a Tailwind class can grow to: at most
\* MaxEdits rewrites of Tailwind classes in one behaviour
MaxEdits == 2

\* cycleStep and increaseStep
\* a step that stops at "ten" instead of going round
NextStepSaturating(step) == IF step = "tenth" THEN "one" ELSE "ten"

NextStep(step) == IF step = "tenth" THEN "one" ELSE IF step = "one" THEN "ten" ELSE "tenth"

\* decreaseStep
PreviousStep(step) == IF step = "tenth" THEN "ten" ELSE IF step = "one" THEN "tenth" ELSE "one"

cycleStep ==
  /\ currentStep' = NextStep(currentStep)
  /\ nav' = NoNav
  /\ last' = LastOf("cycleStep", Undefined, "none", NoRange, NoEdit, <<>>)
  /\ UNCHANGED <<edits, docLines, docLanguageId, cursorLine, cursorCol, activeEditor, activeLine,
                 isEnabled, enableInlineButtons, tailwindLastIndex>>

increaseStep ==
  /\ currentStep' = NextStep(currentStep)
  /\ nav' = NoNav
  /\ last' = LastOf("increaseStep", Undefined, "none", NoRange, NoEdit, <<>>)
  /\ UNCHANGED <<edits, docLines, docLanguageId, cursorLine, cursorCol, activeEditor, activeLine,
                 isEnabled, enableInlineButtons, tailwindLastIndex>>

decreaseStep ==
  /\ currentStep' = PreviousStep(currentStep)
  /\ nav' = NoNav
  /\ last' = LastOf("decreaseStep", Undefined, "none", NoRange, NoEdit, <<>>)
  /\ UNCHANGED <<edits, docLines, docLanguageId, cursorLine, cursorCol, activeEditor, activeLine,
                 isEnabled, enableInlineButtons, tailwindLastIndex>>

\* a command that switches its flag on
NewValueOn(flag) == TRUE

\* newValue of both toggle commands
NewValue(flag) == ~flag

toggleEnabled ==
  /\ isEnabled' = NewValue(isEnabled)
  /\ nav' = NoNav
  /\ last' = LastOf("toggleEnabled", Undefined, "none", NoRange, NoEdit, <<>>)
  /\ UNCHANGED <<edits, docLines, docLanguageId, cursorLine, cursorCol, activeEditor, activeLine,
                 enableInlineButtons, currentStep, tailwindLastIndex>>

toggleInlineButtons ==
  /\ enableInlineButtons' = NewValue(enableInlineButtons)
  /\ nav' = NoNav
  /\ last' = LastOf("toggleInlineButtons", Undefined, "none", NoRange, NoEdit, <<>>)
  /\ UNCHANGED <<edits, docLines, docLanguageId, cursorLine, cursorCol, activeEditor, activeLine,
                 isEnabled, currentStep, tailwindLastIndex>>

\* currentIndex and targetIndex of the jump command, on indices from 1
JumpTargetIndex(currentIndex, length, direction) ==
  IF direction = "next"
    THEN (((currentIndex - 1) + 1) % length) + 1
    ELSE (((currentIndex - 1) - 1 + length) % length) + 1

\* the ranges the jump command moves over, <<>> when it returns early
JumpRanges ==
  IF ~activeEditor \/ ~isEnabled
    THEN <<>>
    ELSE IF ~isCssLikeLanguage(docLanguageId) /\ ~isHtmlOrJsxLanguage(docLanguageId)
           THEN <<>>
           ELSE getNumberRangesOnLine(docLines, docLanguageId, cursorLine)

\* the move of the cursor from candidate currentIndex to candidate targetIndex
JumpTo(direction, ranges, currentIndex, targetIndex) ==
  /\ cursorCol' = ranges[targetIndex].start
  /\ nav' = NavAfter(direction, currentIndex, targetIndex,
                     ContainsColumn(ranges[currentIndex], cursorCol), Len(ranges))
  /\ last' = LastOf("jump", direction, "number", ranges[targetIndex], NoEdit, <<>>)

JumpFrom(direction, ranges, currentIndex) ==
  JumpTo(direction, ranges, currentIndex,
         JumpTargetIndex(currentIndex, Len(ranges), direction))

JumpOver(direction, ranges) ==
  /\ IF Len(ranges) = 0
       THEN /\ cursorCol' = cursorCol
            /\ nav' = NoNav
            /\ last' = LastOf("jump", direction, "none", NoRange, NoEdit, <<>>)
       ELSE JumpFrom(direction, ranges, ClosestIndex(ranges, cursorCol))
  \* every scan loop of getNumberRangesOnLine runs out, which leaves lastIndex 0
  /\ tailwindLastIndex' =
       IF activeEditor /\ isEnabled /\ isHtmlOrJsxLanguage(docLanguageId)
         THEN 0 ELSE tailwindLastIndex
  /\ UNCHANGED <<edits, docLines, docLanguageId, cursorLine, activeEditor, activeLine,
                 isEnabled, enableInlineButtons, currentStep>>

jumpToNumber(direction) == JumpOver(direction, JumpRanges)

jumpToNextNumber ==
  /\ jumpToNumber("next")

jumpToPreviousNumber ==
  /\ jumpToNumber("previous")

\* the edit of a keyword and the selection set after it, by either mutator
PropertyAdjustment(op, arg, line, propertyInfo, newValue, edit) ==
  /\ docLines' = ApplyEdit(docLines, line, edit)
  /\ cursorLine' = IF edit = NoEdit THEN cursorLine ELSE line
  /\ cursorCol' =
       IF edit = NoEdit THEN cursorCol ELSE PropertyCursorAfter(propertyInfo, newValue)
  /\ last' = LastWith(op, arg,
                      IF propertyInfo = TypeError
                        THEN "throw"
                        ELSE IF edit = NoEdit THEN "none" ELSE "property",
                      [start |-> propertyInfo.start, end |-> propertyInfo.end],
                      propertyInfo, edit, <<>>)

\* commands.ts, createCyclePropertyValueCommand: the property value the
\* command acts on, NoPropertyInfo when it returns early
CycleTarget ==
  IF ~activeEditor \/ ~isEnabled \/ ~isCssLikeLanguage(docLanguageId)
    THEN NoPropertyInfo
    ELSE findClosestPropertyValueRangeOnLine(docLines, docLanguageId, cursorLine, cursorCol)

CycleEdit(propertyInfo, dir) ==
  IF propertyInfo = NoPropertyInfo \/ propertyInfo = TypeError
    THEN NoEdit
    ELSE PropertyEdit(LineAt(docLines, cursorLine), propertyInfo, dir)

CycleOn(direction, dir, propertyInfo) ==
  /\ PropertyAdjustment("cycle", direction, cursorLine, propertyInfo,
                        NewPropertyValue(propertyInfo, dir), CycleEdit(propertyInfo, dir))
  /\ nav' = NoNav
  /\ UNCHANGED <<edits, docLanguageId, activeEditor, activeLine, isEnabled,
                 enableInlineButtons, currentStep, tailwindLastIndex>>

cyclePropertyValue(direction) ==
  CycleOn(direction, IF direction = "forward" THEN 1 ELSE 0 - 1, CycleTarget)

cyclePropertyValueForward ==
  /\ cyclePropertyValue("forward")

cyclePropertyValueBackward ==
  /\ cyclePropertyValue("backward")

\* targetLine of runValueAdjustment
TargetLine(lineFromLens) == IF lineFromLens # Undefined THEN lineFromLens ELSE cursorLine

\* referenceColumn of runValueAdjustment
ReferenceColumn(targetLine) == IF cursorLine = targetLine THEN cursorCol ELSE Undefined

\* useProperty: the property value is adjusted when its centre is at most as
\* far from the column as the centre of the number
UseProperty(numberRange, propertyInfo, refCol) ==
  IF numberRange # NoRange /\ propertyInfo # NoPropertyInfo
    THEN CenterDist2(propertyInfo, refCol) <= CenterDist2(numberRange, refCol)
    ELSE propertyInfo # NoPropertyInfo

\* the candidate kind runValueAdjustment acts on
AdjustmentKind(numberRange, propertyInfo, refCol) ==
  IF ~activeEditor \/ (numberRange = NoRange /\ propertyInfo = NoPropertyInfo)
    THEN "none"
    ELSE IF propertyInfo = TypeError
    THEN "throw"
    ELSE IF UseProperty(numberRange, propertyInfo, refCol) THEN "property" ELSE "number"

applyPropertyValueAdjustment(op, targetLine, propertyInfo, direction) ==
  /\ PropertyAdjustment(op, Undefined, targetLine, propertyInfo,
                        NewPropertyValue(propertyInfo, direction),
                        PropertyEdit(LineAt(docLines, targetLine), propertyInfo, direction))
  /\ UNCHANGED <<tailwindLastIndex, edits>>

\* applyTailwindNumberAdjustment after runValueAdjustment has put the cursor
\* on the number
TailwindAdjustment(op, targetLine, targetRange, edit) ==
  /\ edits < MaxEdits
  /\ edits' = edits + 1
  /\ docLines' = ApplyEdit(docLines, targetLine, edit)
  /\ cursorLine' = targetLine
  /\ cursorCol' \in HostCursorAfterEdit(targetRange.start, edit)
  /\ tailwindLastIndex' = TailwindLastIndexAfter(LineAt(docLines, targetLine), targetRange, 0)
  /\ last' = LastOf(op, Undefined, "number", targetRange, edit, <<>>)

applyTailwindNumberAdjustment(op, targetLine, targetRange, emmetCommand) ==
  TailwindAdjustment(op, targetLine, targetRange,
                     TailwindEdit(LineAt(docLines, targetLine), targetRange, currentStep,
                                  emmetCommand))

\* a call of the host command that comes before the cursor is moved
ExecuteCommandBeforeMove(emmetCommand, targetLine, targetRange) ==
  [command |-> emmetCommand, line |-> cursorLine, character |-> cursorCol]

\* vscode.commands.executeCommand(emmetCommand), with the selection the
\* command finds: the one set just before, at the start of the number
ExecuteCommand(emmetCommand, targetLine, targetRange) ==
  [command |-> emmetCommand, line |-> targetLine, character |-> targetRange.start]

\* the Emmet command of the host, with the cursor on the number; what it
\* writes belongs to the host and is not modelled
EmmetAdjustment(op, targetLine, targetRange, emmetCommand) ==
  /\ cursorLine' = targetLine
  /\ cursorCol' = targetRange.start
  /\ last' = LastOf(op, Undefined, "number", targetRange, NoEdit,
                    <<ExecuteCommand(emmetCommand, targetLine, targetRange)>>)
  /\ UNCHANGED <<docLines, tailwindLastIndex, edits>>

\* findClosestPropertyValueRangeOnLine throws: the command ends there
ThrowingAdjustment(op) ==
  /\ last' = LastWith(op, Undefined, "throw", NoRange, TypeError, NoEdit, <<>>)
  /\ UNCHANGED <<docLines, cursorLine, cursorCol, edits, tailwindLastIndex>>

\* no candidate on the line, or no editor
NoAdjustment(op, targetLine) ==
  /\ last' = LastOf(op, Undefined, "none", NoRange, NoEdit, <<>>)
  \* a scan of a line of an HTML/JSX document runs out
  /\ tailwindLastIndex' =
       IF /\ activeEditor
          /\ isHtmlOrJsxLanguage(docLanguageId)
          /\ targetLine >= 0
          /\ targetLine < Len(docLines)
         THEN 0 ELSE tailwindLastIndex
  /\ UNCHANGED <<docLines, cursorLine, cursorCol, edits>>

\* no run of adjustments of a keyword under way, in a behaviour that follows
\* such runs: one that starts with nav = KeywordRuns
KeywordRuns == [dir |-> "keyword", origin |-> 0, onOrigin |-> FALSE, count |-> 0, visited |-> {}]

KeywordRunsFollowed == nav.dir \in {"keyword", "increment", "decrement"}

\* the run of adjustments of keywords after one more adjustment, of the
\* keyword propertyInfo on targetLine: an adjustment of the keyword of a run
\* of fewer adjustments than its family has members, in the direction of the
\* run, extends it; any other starts a new run, whose origin keeps the line as
\* it was (onOrigin: the cursor was inside the keyword)
KeywordRunAfter(targetLine, propertyInfo, direction, refCol) ==
  IF ~KeywordRunsFollowed
    THEN NoNav
    ELSE IF /\ nav.dir = direction
            /\ nav.origin.line = targetLine
            /\ nav.origin.start = propertyInfo.start
            /\ nav.count < Len(ValidValues(propertyInfo.property))
           THEN [nav EXCEPT !.count = @ + 1]
           ELSE [dir |-> direction,
                 origin |-> [line |-> targetLine, start |-> propertyInfo.start,
                             value |-> propertyInfo.value,
                             text |-> LineAt(docLines, targetLine)],
                 onOrigin |-> ContainsColumn(propertyInfo, refCol),
                 count |-> 1, visited |-> {}]

AdjustKind(op, targetLine, numberRange, propertyInfo, emmetCommand, kind) ==
  /\ nav' = IF kind = "property"
              THEN KeywordRunAfter(targetLine, propertyInfo,
                                   IF IsIncrement(emmetCommand)
                                     THEN "increment" ELSE "decrement",
                                   RefCol(ReferenceColumn(targetLine)))
              ELSE IF KeywordRunsFollowed THEN KeywordRuns ELSE NoNav
  /\ UNCHANGED <<docLanguageId, activeEditor, activeLine, isEnabled,
                 enableInlineButtons, currentStep>>
  /\ IF kind = "none"
       THEN NoAdjustment(op, targetLine)
       ELSE IF kind = "throw"
       THEN ThrowingAdjustment(op)
       ELSE IF kind = "property"
              THEN applyPropertyValueAdjustment(op, targetLine, propertyInfo,
                                                IF IsIncrement(emmetCommand)
                                                  THEN 1 ELSE 0 - 1)
              ELSE IF isHtmlOrJsxLanguage(docLanguageId)
                     THEN applyTailwindNumberAdjustment(op, targetLine, numberRange,
                                                        emmetCommand)
                     ELSE EmmetAdjustment(op, targetLine, numberRange, emmetCommand)

AdjustCandidates(op, targetLine, refCol, numberRange, propertyInfo, emmetCommand) ==
  AdjustKind(op, targetLine, numberRange, propertyInfo, emmetCommand,
             AdjustmentKind(numberRange, propertyInfo, refCol))

AdjustAt(op, targetLine, referenceColumn, emmetCommand) ==
  AdjustCandidates(op, targetLine, RefCol(referenceColumn),
                   findClosestNumberRangeOnLine(docLines, docLanguageId, targetLine,
                                                referenceColumn),
                   findClosestPropertyValueRangeOnLine(docLines, docLanguageId,
                                                       targetLine, referenceColumn),
                   emmetCommand)

AdjustLine(op, targetLine, emmetCommand) ==
  AdjustAt(op, targetLine, ReferenceColumn(targetLine), emmetCommand)

runValueAdjustment(op, lineFromLens, emmetCommand) ==
  AdjustLine(op, TargetLine(lineFromLens), emmetCommand)

\* the candidate kind runValueAdjustment acts on in the current state
TargetKindAt(targetLine, referenceColumn) ==
  AdjustmentKind(findClosestNumberRangeOnLine(docLines, docLanguageId, targetLine,
                                              referenceColumn),
                 findClosestPropertyValueRangeOnLine(docLines, docLanguageId,
                                                     targetLine, referenceColumn),
                 RefCol(referenceColumn))

AdjustmentTarget(lineFromLens) ==
  TargetKindAt(TargetLine(lineFromLens), ReferenceColumn(TargetLine(lineFromLens)))

\* the line a lens or a key binding passes: none, or a line of the document
LensLines == {Undefined} \cup (0..(Len(docLines) - 1))

incrementValue ==
  \E lineFromLens \in LensLines :
    runValueAdjustment("incrementValue", lineFromLens, EmmetIncrement[currentStep])

decrementValue ==
  \E lineFromLens \in LensLines :
    runValueAdjustment("decrementValue", lineFromLens, EmmetDecrement[currentStep])

incrementValueByTenth ==
  \E lineFromLens \in LensLines :
    runValueAdjustment("incrementValueByTenth", lineFromLens, EmmetIncrement["tenth"])

decrementValueByTenth ==
  \E lineFromLens \in LensLines :
    runValueAdjustment("decrementValueByTenth", lineFromLens, EmmetDecrement["tenth"])

incrementValueByTen ==
  \E lineFromLens \in LensLines :
    runValueAdjustment("incrementValueByTen", lineFromLens, EmmetIncrement["ten"])

decrementValueByTen ==
  \E lineFromLens \in LensLines :
    runValueAdjustment("decrementValueByTen", lineFromLens, EmmetDecrement["ten"])

(***************************************************************************)
(* The events of the host                                                  *)
(***************************************************************************)
\* the columns the model lets the user put the cursor on: the ends and the
\* middle of a line
SelectColumns(lineText) == {0, Len(lineText) \div 2, Len(lineText)}

\* the selections an event of an editor can carry: none, or one with its
\* active end on a line of the document
Selections ==
  {<<>>} \cup UNION {{<<[line |-> line, character |-> col]>> :
                        col \in SelectColumns(LineAt(docLines, line))} :
                     line \in 0..(Len(docLines) - 1)}

\* a state that follows every selection
SelectionTrackedAlways(editor, selections) == selections # <<>>

\* the condition of updateFromSelection
SelectionTracked(editor, selections) == editor /\ selections # <<>>

\* the user moves the cursor: onDidChangeTextEditorSelection and
\* state.updateFromSelection
updateFromSelection ==
  /\ \E selections \in Selections :
       /\ activeLine' = IF SelectionTracked(activeEditor, selections)
                          THEN selections[1].line ELSE activeLine
       \* the cursor of the active editor is where its selection is
       /\ cursorLine' = IF activeEditor /\ selections # <<>>
                          THEN selections[1].line ELSE cursorLine
       /\ cursorCol' = IF activeEditor /\ selections # <<>>
                         THEN selections[1].character ELSE cursorCol
       /\ last' = [LastEvent("select") EXCEPT !.arg = selections]
  /\ nav' = NoNav
  /\ UNCHANGED <<edits, docLines, docLanguageId, activeEditor, isEnabled,
                 enableInlineButtons, currentStep, tailwindLastIndex>>

\* the active editor changes: onDidChangeActiveTextEditor and
\* state.updateFromActiveEditor
updateFromActiveEditor ==
  /\ \E editor \in BOOLEAN :
       /\ activeEditor' = editor
       /\ activeLine' = IF editor THEN cursorLine ELSE Undefined
       /\ last' = [LastEvent("editor") EXCEPT !.arg = editor]
  /\ nav' = NoNav
  /\ UNCHANGED <<edits, docLines, docLanguageId, cursorLine, cursorCol, isEnabled,
                 enableInlineButtons, currentStep, tailwindLastIndex>>

(***************************************************************************)
(* The inline buttons                                                      *)
(***************************************************************************)
\* state.hasActiveNumber
hasActiveNumber ==
  IF ~isEnabled \/ ~activeEditor
    THEN FALSE
    ELSE IF activeLine = Undefined
      THEN FALSE
      ELSE IF activeLine < 0 \/ activeLine >= Len(docLines)
        THEN FALSE
        ELSE findClosestNumberRangeOnLine(docLines, docLanguageId, activeLine, cursorCol)
               # NoRange

\* state.hasActivePropertyValue calls findClosestPropertyValueRangeOnLine
hasActivePropertyValueScans ==
  /\ isEnabled
  /\ activeEditor
  /\ docLanguageId \in {"css", "scss", "less"}
  /\ activeLine # Undefined
  /\ activeLine >= 0
  /\ activeLine < Len(docLines)

\* state.hasActivePropertyValue throws what the scan throws
hasActivePropertyValueThrows ==
  /\ hasActivePropertyValueScans
  /\ findClosestPropertyValueRangeOnLine(docLines, docLanguageId, activeLine, cursorCol)
       = TypeError

\* state.hasActivePropertyValue, where it returns
hasActivePropertyValue ==
  /\ hasActivePropertyValueScans
  /\ findClosestPropertyValueRangeOnLine(docLines, docLanguageId, activeLine, cursorCol)
       # NoPropertyInfo

\* the callback of activate that createCodeLensProvider gets as
\* getCurrentStepLabel
getCurrentStepLabel(step) ==
  IF step = "tenth"
    THEN [label |-> "0.1", incCommand |-> "css-controls.incrementValueByTenth",
          decCommand |-> "css-controls.decrementValueByTenth"]
    ELSE IF step = "one"
      THEN [label |-> "1", incCommand |-> "css-controls.incrementValue",
            decCommand |-> "css-controls.decrementValue"]
      ELSE [label |-> "10", incCommand |-> "css-controls.incrementValueByTen",
            decCommand |-> "css-controls.decrementValueByTen"]

\* new vscode.CodeLens(range, {title, command, arguments}) on line `line`
CodeLens(line, title, command, arguments) ==
  [line |-> line, title |-> title, command |-> command, arguments |-> arguments]

HelpLens == CodeLens(activeLine, "?", "css-controls.openDocs", <<>>)

StepLens(stepConfig) ==
  CodeLens(activeLine, "x" \o stepConfig.label, "css-controls.cycleStep", <<>>)

DecrementLens(stepConfig) == CodeLens(activeLine, "▼", stepConfig.decCommand, <<activeLine>>)

IncrementLens(stepConfig) == CodeLens(activeLine, "▲", stepConfig.incCommand, <<activeLine>>)

\* the lenses of a provider that shows the step indicator with every number
LensesShownWithStep(hasNumber, hasProperty, stepConfig) ==
  IF hasNumber
    THEN <<HelpLens, StepLens(stepConfig), DecrementLens(stepConfig), IncrementLens(stepConfig)>>
    ELSE <<HelpLens, DecrementLens(stepConfig), IncrementLens(stepConfig)>>

\* the lenses pushed once the early returns are passed
LensesShown(hasNumber, hasProperty, stepConfig) ==
  IF hasNumber /\ ~hasProperty
    THEN <<HelpLens, StepLens(stepConfig), DecrementLens(stepConfig), IncrementLens(stepConfig)>>
    ELSE <<HelpLens, DecrementLens(stepConfig), IncrementLens(stepConfig)>>

\* the lenses of a provider that only looks at the flags of the extension
LensesUngated(sameDocument) ==
  IF ~activeEditor \/ ~sameDocument \/ ~isEnabled \/ ~enableInlineButtons
       \/ activeLine = Undefined
    THEN <<>>
    ELSE LensesShown(hasActiveNumber, hasActivePropertyValue,
                     getCurrentStepLabel(currentStep))

\* what provideCodeLenses returns where it returns; sameDocument: the uri of
\* `document` is the uri of the document of the active editor
LensesOf(sameDocument) ==
  IF ~activeEditor \/ ~sameDocument
    THEN <<>>
    ELSE IF ~isEnabled
      THEN <<>>
      ELSE IF ~enableInlineButtons
        THEN <<>>
        ELSE IF (~hasActiveNumber /\ ~hasActivePropertyValue) \/ activeLine = Undefined
          THEN <<>>
          ELSE LensesShown(hasActiveNumber, hasActivePropertyValue,
                           getCurrentStepLabel(currentStep))

\* provideCodeLenses throws what a call of state.hasActivePropertyValue
\* throws: the call of the guard, which a number on the line skips, or the call
\* behind the guard
ProvideThrows(sameDocument) ==
  /\ activeEditor
  /\ sameDocument
  /\ isEnabled
  /\ enableInlineButtons
  /\ hasActivePropertyValueThrows

\* the host asks for the lenses of a document
provideCodeLenses ==
  /\ \E sameDocument \in BOOLEAN :
       last' = LastOf("provideCodeLenses",
                      [sameDocument |-> sameDocument,
                       thrown |-> ProvideThrows(sameDocument),
                       lenses |-> IF ProvideThrows(sameDocument)
                                    THEN <<>> ELSE LensesOf(sameDocument)],
                      "none", NoRange, NoEdit, <<>>)
  /\ UNCHANGED <<docLines, docLanguageId, cursorLine, cursorCol, activeEditor, activeLine,
                 isEnabled, enableInlineButtons, currentStep, tailwindLastIndex, nav, edits>>

(***************************************************************************)
(* The lines the model starts from                                         *)
(***************************************************************************)
\* the bound of the model on the white space after the colon of a declaration
MaxPad == 1

Spaces(n) == [i \in 1..n |-> " "]

\* what may follow the value of a declaration: nothing, the modifier after
\* white space, the modifier directly, the modifier spread out in capitals,
\* and something that is no modifier
Modifiers ==
  {<<>>,
   <<" ", "!", "i", "m", "p", "o", "r", "t", "a", "n", "t">>,
   <<"!", "i", "m", "p", "o", "r", "t", "a", "n", "t">>,
   <<" ", " ", "!", " ", "I", "M", "P", "O", "R", "T", "A", "N", "T">>,
   <<" ", "!", "i", "m", "p">>}

Terminators == {<<>>, <<";">>}

\* every value of the table as written, and two of them in capitals
KeywordValues ==
  UNION {{PROPERTY_VALUES[q][k] : k \in DOMAIN PROPERTY_VALUES[q]} :
           q \in DOMAIN PROPERTY_VALUES}
  \cup {ToUpperCase(Center), ToUpperCase(FlexStart)}

\* one declaration of a property of the table with one of the values, of its
\* own or of another property
KeywordLinesOf(properties, values) ==
  {property \o <<":">> \o Spaces(pad) \o value \o modifier \o terminator :
     property \in properties, pad \in 0..MaxPad, value \in values,
     modifier \in Modifiers, terminator \in Terminators}

KeywordLines == KeywordLinesOf(DOMAIN PROPERTY_VALUES, KeywordValues)

\* the declarations of one property the detection is applied to
DetectKeywordLines ==
  KeywordLinesOf({JustifyContent}, {Center, FlexStart, ToUpperCase(Center), Auto})

\* CSS lines with numbers and with property values of the table
MixedLines ==
  {<<"a", "l", "i", "g", "n", "-", "s", "e", "l", "f", ":", " ", "a", "u", "t", "o", ";", " ", "a", "l", "i", "g", "n", "-", "i", "t", "e", "m", "s", ":", " ", "c", "e", "n", "t", "e", "r">>,
   <<"a", "l", "i", "g", "n", "-", "s", "e", "l", "f", ":", " ", "a", "u", "t", "o", " ", "1", ".", "5", "5", "5", "5", "r", "e", "m">>,
   <<"j", "u", "s", "t", "i", "f", "y", "-", "c", "o", "n", "t", "e", "n", "t", ":", " ", "s", "p", "a", "c", "e", "-", "b", "e", "t", "w", "e", "e", "n", " ", "1", ";">>,
   <<"g", "a", "p", ":", " ", "4", "p", "x", ";", " ", "a", "l", "i", "g", "n", "-", "i", "t", "e", "m", "s", ":", " ", "c", "e", "n", "t", "e", "r", ";">>,
   <<"a", "l", "i", "g", "n", "-", "i", "t", "e", "m", "s", ":", "c", "e", "n", "t", "e", "r", ";", "m", "a", "r", "g", "i", "n", ":", "1", "0", "p", "x", " ", "2", "0", "p", "x">>,
   <<"f", "l", "e", "x", ":", " ", "1", ";", " ", "a", "l", "i", "g", "n", "-", "s", "e", "l", "f", ":", " ", "f", "l", "e", "x", "-", "e", "n", "d", " ", "!", "i", "m", "p", "o", "r", "t", "a", "n", "t">>,
   <<"j", "u", "s", "t", "i", "f", "y", "-", "c", "o", "n", "t", "e", "n", "t", ":", "s", "p", "a", "c", "e", "-", "b", "e", "t", "w", "e", "e", "n", ";", "g", "a", "p", ":", "8">>}

\* CSS lines with numbers, apart and adjacent, and one without
CssNumberLines ==
  {<<" ", ".", "b", "o", "x", " ", "{", " ", "m", "a", "r", "g", "i", "n", ":", " ", "1", "0", "p", "x", " ", "2", "0", "p", "x", ";", " ", "}">>,
   <<"1", " ", "2", " ", "3">>,
   <<"i", "n", "s", "e", "t", ":", " ", "1", "0", "p", "x", "-", "5", "p", "x">>,
   <<"1", ".", "5", ".", "5", " ", "7">>,
   <<"t", "o", "p", ":", " ", "0">>,
   <<"-", ".", "5", "e", "m", " ", "1", "2", "r", "e", "m", " ", "5", "0", "%">>,
   <<"c", "o", "l", "o", "r", ":", " ", "r", "e", "d">>,
   <<"1", "0", " ", " ", "2", "0">>}

\* HTML/JSX lines with Tailwind classes
TailwindLines ==
  {<<"w", "-", "1", "2">>,
   <<"g", "a", "p", "-", "2">>,
   <<"r", "o", "u", "n", "d", "e", "d", "-", "t", "l", "-", "3", ".", "9", "x", "l">>,
   <<"p", "-", "4", " ", "w", "-", "1", "2", " ", "h", "-", "6", "4">>,
   <<"m", "t", "-", "0", ".", "5", " ", "x">>,
   <<"w", "-", "0", " ", "p", "-", "2", ".", "5">>,
   <<"f", "l", "e", "x">>}

(***************************************************************************)
(* Specifications                                                          *)
(***************************************************************************)
\* the state after activation with one of `documents` open in the active
\* editor and the cursor on its first line
InitWithNav(documents, nav0) ==
  /\ \E d \in documents :
       /\ docLines = d.lines
       /\ docLanguageId = d.languageId
       /\ cursorCol \in d.columns
  /\ cursorLine = 0
  /\ activeEditor = TRUE
  /\ activeLine = 0
  /\ isEnabled = TRUE
  /\ enableInlineButtons = TRUE
  /\ currentStep = "one"
  /\ tailwindLastIndex = 0
  /\ last = LastEvent("activate")
  /\ nav = nav0
  /\ edits = 0

InitWith(documents) == InitWithNav(documents, NoNav)

AllColumns(line) == 0..Len(line)

EndColumns(line) == {0, Len(line)}

\* documents of one line, with the cursor on the columns columns(line) gives
OneLine(lines, languageIds, columns(_)) ==
  {[lines |-> <<l>>, languageId |-> lang, columns |-> columns(l)] :
     l \in lines, lang \in languageIds}

\* keyword mutation: the cycle command and increment / decrement on
\* declarations of the table
InitKeyword == InitWith(OneLine(KeywordLines, {"css"}, EndColumns))

NextKeyword ==
  \/ cyclePropertyValueForward
  \/ cyclePropertyValueBackward
  \/ incrementValue
  \/ decrementValue

SpecKeyword == InitKeyword /\ [][NextKeyword]_vars

\* documents of two lines, with the cursor on the first
TwoLines(lines, second, languageIds, columns(_)) ==
  {[lines |-> <<l, second>>, languageId |-> lang, columns |-> columns(l)] :
     l \in lines, lang \in languageIds}

\* increment / decrement, from the keyboard or from a lens of either line, on
\* CSS lines that hold numbers and property values
InitMixed ==
  InitWith(TwoLines(MixedLines, <<"t", "o", "p", ":", " ", "0">>, {"css", "scss"},
                    AllColumns))

NextMixed ==
  \/ incrementValue
  \/ decrementValue

SpecMixed == InitMixed /\ [][NextMixed]_vars

\* jumps between the numbers of a line
InitJump ==
  InitWith(OneLine(CssNumberLines, {"css"}, AllColumns)
           \cup OneLine(TailwindLines, {"html"}, AllColumns))

NextJump ==
  \/ jumpToNextNumber
  \/ jumpToPreviousNumber

SpecJump == InitJump /\ [][NextJump]_vars

\* increment / decrement of Tailwind classes, with each step
InitTailwind == InitWith(OneLine(TailwindLines, {"html", "typescriptreact"}, AllColumns))

NextTailwind ==
  \/ incrementValue
  \/ decrementValue
  \/ cycleStep
  \/ decreaseStep

SpecTailwind == InitTailwind /\ [][NextTailwind]_vars

\* detection.ts applied to a line number and a reference column, as its
\* callers and its tests apply it; the results are kept in `last`
\* the ranges findClosestNumberRangeOnLine chooses among, <<>> for a line
\* outside the document
QueryRanges(lineNumber) ==
  IF lineNumber < 0 \/ lineNumber >= Len(docLines)
    THEN <<>>
    ELSE getNumberRangesOnLine(docLines, docLanguageId, lineNumber)

findClosest ==
  /\ \E lineNumber \in (0 - 1)..Len(docLines) :
       /\ \E referenceColumn \in {Undefined, cursorCol} :
            last' = LastWith("findClosest",
                             [lineNumber |-> lineNumber, referenceColumn |-> referenceColumn,
                              ranges |-> QueryRanges(lineNumber)],
                             "none",
                             findClosestNumberRangeOnLine(docLines, docLanguageId,
                                                          lineNumber, referenceColumn),
                             findClosestPropertyValueRangeOnLine(docLines, docLanguageId,
                                                                 lineNumber, referenceColumn),
                             NoEdit, <<>>)
       \* the scan loop of a line of an HTML/JSX document runs out, which
       \* leaves lastIndex 0
       /\ tailwindLastIndex' =
            IF /\ isHtmlOrJsxLanguage(docLanguageId)
               /\ lineNumber >= 0
               /\ lineNumber < Len(docLines)
              THEN 0 ELSE tailwindLastIndex
  /\ UNCHANGED <<docLines, docLanguageId, cursorLine, cursorCol, activeEditor, activeLine,
                 isEnabled, enableInlineButtons, currentStep, nav, edits>>

StartColumn(line) == {0}

InitDetect ==
  InitWith(OneLine(CssNumberLines \cup DetectKeywordLines, {"css"}, AllColumns)
           \cup OneLine(MixedLines, {"scss", "less"}, AllColumns)
           \cup OneLine(TailwindLines, {"html", "javascriptreact"}, AllColumns)
           \cup OneLine(CssNumberLines, {"plaintext"}, EndColumns)
           \cup OneLine(TailwindLines, {"css"}, EndColumns)
           \cup OneLine(CssNumberLines \cup MixedLines, {"html", "typescriptreact"},
                        EndColumns)
           \cup OneLine(MixedLines \cup TailwindLines, {"plaintext", "markdown"},
                        EndColumns))

NextDetect == findClosest

SpecDetect == InitDetect /\ [][NextDetect]_vars

\* lines with declarations of names outside the table, among them the name
\* every object inherits, with values the table does not hold, and without a
\* declaration at all
UnknownLines ==
  {<<"c", "o", "n", "s", "t", "r", "u", "c", "t", "o", "r", ":", " ", "c", "e", "n", "t", "e", "r">>,
   <<"c", "o", "l", "o", "r", ":", " ", "r", "e", "d">>,
   <<"j", "u", "s", "t", "i", "f", "y", "-", "c", "o", "n", "t", "e", "n", "t", ":", " ", "m", "i", "d", "d", "l", "e">>,
   <<"d", "i", "s", "p", "l", "a", "y", ":", " ", "f", "l", "e", "x", ";", " ", "a", "l", "i", "g", "n", "-", "i", "t", "e", "m", "s", ":", " ", "c", "e", "n", "t", "e", "r">>,
   <<"g", "a", "p", ":", " ", "4", "p", "x", ";", " ", "c", "o", "n", "s", "t", "r", "u", "c", "t", "o", "r", ":", " ", "x">>,
   <<".", "r", "o", "w", " ", "{">>}

\* detection and both keyword mutators on such lines, in a style sheet and
\* in a page
InitUnknown ==
  InitWith(OneLine(UnknownLines, {"css", "less", "html"}, AllColumns))

NextUnknown ==
  \/ findClosest
  \/ incrementValue
  \/ decrementValue
  \/ cyclePropertyValueForward
  \/ cyclePropertyValueBackward

SpecUnknown == InitUnknown /\ [][NextUnknown]_vars

\* scans between the rewrites of Tailwind classes, which leave lastIndex
\* where their loop broke off
InitScan == InitWith(OneLine(TailwindLines, {"html"}, EndColumns))

NextScan ==
  \/ incrementValue
  \/ decrementValue
  \/ findClosest
  \/ jumpToNextNumber

SpecScan == InitScan /\ [][NextScan]_vars

\* the jump and cycle commands with and without an editor, enabled and
\* disabled, on lines with and without candidates, in supported languages and
\* in plain text
InitGate ==
  InitWith(OneLine(UnknownLines \cup {<<"t", "o", "p", ":", " ", "0", ";", " ", "a", "l", "i", "g", "n", "-", "s", "e", "l", "f", ":", " ", "a", "u", "t", "o">>,
                                      <<"p", "-", "4", " ", "w", "-", "1", "2">>},
                   {"css", "html", "plaintext"}, EndColumns))

NextGate ==
  \/ jumpToNextNumber
  \/ jumpToPreviousNumber
  \/ cyclePropertyValueForward
  \/ cyclePropertyValueBackward
  \/ toggleEnabled
  \/ updateFromActiveEditor

SpecGate == InitGate /\ [][NextGate]_vars

\* the inline buttons over lines with a number, with a keyword, with both
\* and with neither, while the flags, the step and the editor change
ButtonLines ==
  {<<"t", "o", "p", ":", " ", "0", ";", " ", "a", "l", "i", "g", "n", "-", "s", "e", "l", "f", ":", " ", "a", "u", "t", "o">>,
   <<"g", "a", "p", ":", " ", "8", "p", "x">>,
   <<"a", "l", "i", "g", "n", "-", "s", "e", "l", "f", ":", " ", "a", "u", "t", "o">>,
   <<"c", "o", "n", "s", "t", "r", "u", "c", "t", "o", "r", ":", " ", "c", "e", "n", "t", "e", "r">>,
   <<".", "r", "o", "w", " ", "{">>,
   <<"p", "-", "4", " ", "w", "-", "1", "2">>}

InitLens == InitWith(OneLine(ButtonLines, {"css", "html", "plaintext"}, StartColumn))

NextLens ==
  \/ provideCodeLenses
  \/ toggleEnabled
  \/ toggleInlineButtons
  \/ cycleStep
  \/ updateFromActiveEditor

SpecLens == InitLens /\ [][NextLens]_vars

\* the state of the extension while editors and selections change, on
\* documents of two lines
InitState ==
  InitWith(TwoLines({<<"g", "a", "p", ":", " ", "8", "p", "x">>, <<".", "r", "o", "w", " ", "{">>},
                    <<"t", "o", "p", ":", " ", "0">>, {"css", "html"}, StartColumn))

NextState ==
  \/ updateFromActiveEditor
  \/ updateFromSelection
  \/ toggleEnabled
  \/ provideCodeLenses

SpecState == InitState /\ [][NextState]_vars

\* declarations of the table behind selectors, behind other declarations,
\* with white space around the colon, with and without terminator
DeclarationLines ==
  {<<"a", ":", "h", "o", "v", "e", "r", " ", "{", " ", "j", "u", "s", "t", "i", "f", "y", "-", "c", "o", "n", "t", "e", "n", "t", ":", " ", "c", "e", "n", "t", "e", "r", ";", " ", "}">>,
   <<".", "r", "o", "w", " ", "{", " ", " ", " ", "j", "u", "s", "t", "i", "f", "y", "-", "c", "o", "n", "t", "e", "n", "t", " ", " ", ":", " ", " ", " ", "f", "l", "e", "x", "-", "e", "n", "d", " ", " ", "}">>,
   <<".", "r", "o", "w", " ", "{", " ", "j", "u", "s", "t", "i", "f", "y", "-", "c", "o", "n", "t", "e", "n", "t", ":", " ", "c", "e", "n", "t", "e", "r", ";", " ", "a", "l", "i", "g", "n", "-", "i", "t", "e", "m", "s", ":", " ", "f", "l", "e", "x", "-", "s", "t", "a", "r", "t", ";", " ", "}">>,
   <<"j", "u", "s", "t", "i", "f", "y", "-", "c", "o", "n", "t", "e", "n", "t", ":", "c", "e", "n", "t", "e", "r">>,
   <<"A", "L", "I", "G", "N", "-", "S", "E", "L", "F", ":", " ", "A", "u", "t", "o", " ", "!", "i", "m", "p", "o", "r", "t", "a", "n", "t">>,
   <<"c", "o", "l", "o", "r", ":", " ", "r", "e", "d", ";", " ", "a", "l", "i", "g", "n", "-", "i", "t", "e", "m", "s", ":", " ", "b", "a", "s", "e", "l", "i", "n", "e">>,
   <<"a", "l", "i", "g", "n", "-", "i", "t", "e", "m", "s", ":", " ", "c", "e", "n", "t", "e", "r", "!", "i", "m", "p", "o", "r", "t", "a", "n", "t", ";">>}

InitComplete == InitWith(OneLine(DeclarationLines, {"css", "scss", "less"}, EndColumns))

NextComplete ==
  \/ findClosest

SpecComplete == InitComplete /\ [][NextComplete]_vars

\* all six adjustment commands at every step, on lines with numbers, with a
\* keyword and with neither, in a style sheet and in a page
DelegateLines ==
  {<<"t", "o", "p", ":", " ", "0", ";", " ", "a", "l", "i", "g", "n", "-", "s", "e", "l", "f", ":", " ", "a", "u", "t", "o">>,
   <<"g", "a", "p", ":", " ", "8", "p", "x", " ", "4", "p", "x">>,
   <<".", "r", "o", "w", " ", "{">>,
   <<"p", "-", "4", " ", "w", "-", "1", "2">>}

InitDelegate == InitWith(OneLine(DelegateLines, {"css", "html"}, EndColumns))

NextDelegate ==
  \/ incrementValue
  \/ decrementValue
  \/ incrementValueByTenth
  \/ decrementValueByTenth
  \/ incrementValueByTen
  \/ decrementValueByTen
  \/ cycleStep

SpecDelegate == InitDelegate /\ [][NextDelegate]_vars

\* an adjustment of a utility class and the opposite one after it, on numbers
\* with and without a decimal digit, written plainly or with a zero too many
InverseLines ==
  {<<"w", "-", "1", "2">>,
   <<"g", "a", "p", "-", "2">>,
   <<"m", "t", "-", "0", ".", "5", " ", "x">>,
   <<"w", "-", "2", ".", "0">>,
   <<"h", "-", "0", "7">>,
   <<"p", "-", "4", " ", "w", "-", "1", "2">>,
   <<"r", "o", "u", "n", "d", "e", "d", "-", "t", "l", "-", "3", ".", "9", "x", "l">>}

InitInverse == InitWith(OneLine(InverseLines, {"html"}, EndColumns))

NextInverse ==
  \/ incrementValue
  \/ decrementValue
  \/ cycleStep

SpecInverse == InitInverse /\ [][NextInverse]_vars

\* runs of increments and decrements of the keywords of a line, with and
\* without numbers and modifiers next to them
CycleLines ==
  MixedLines
  \cup {<<"j", "u", "s", "t", "i", "f", "y", "-", "c", "o", "n", "t", "e", "n", "t", ":", " ", "c", "e", "n", "t", "e", "r">>,
        <<"a", "l", "i", "g", "n", "-", "i", "t", "e", "m", "s", ":", " ", " ", "B", "a", "s", "e", "l", "i", "n", "e", " ", " ", "!", " ", "I", "M", "P", "O", "R", "T", "A", "N", "T", ";">>,
        <<"a", "l", "i", "g", "n", "-", "s", "e", "l", "f", ":", " ", "s", "t", "r", "e", "t", "c", "h", " ", "!", "i", "m", "p", "o", "r", "t", "a", "n", "t", ";", " ", "t", "o", "p", ":", " ", "0">>,
        <<"a", "l", "i", "g", "n", "-", "i", "t", "e", "m", "s", ":", " ", "c", "e", "n", "t", "e", "r", "!", "i", "m", "p", "o", "r", "t", "a", "n", "t", ";">>}

InitCycle == InitWithNav(OneLine(CycleLines, {"css", "scss"}, AllColumns), KeywordRuns)

NextCycle ==
  \/ incrementValue
  \/ decrementValue

SpecCycle == InitCycle /\ [][NextCycle]_vars

\* the inline buttons and the commands behind them, at every column of
\* lines with numbers, with keywords and with both
AgreeLines ==
  MixedLines
  \cup {<<"g", "a", "p", ":", " ", "8", "p", "x">>, <<"a", "l", "i", "g", "n", "-", "s", "e", "l", "f", ":", " ", "a", "u", "t", "o">>, <<".", "r", "o", "w", " ", "{">>, <<"p", "-", "4", " ", "w", "-", "1", "2">>}

InitAgree == InitWith(OneLine(AgreeLines, {"css", "html"}, AllColumns))

NextAgree ==
  \/ provideCodeLenses
  \/ incrementValue
  \/ decrementValue

SpecAgree == InitAgree /\ [][NextAgree]_vars

\* the extension at work on a style sheet and on a page, of one line each
Documents ==
  OneLine({<<"t", "o", "p", ":", " ", "0", ";", " ", "a", "l", "i", "g", "n", "-", "s", "e", "l", "f", ":", " ", "a", "u", "t", "o">>}, {"css"}, StartColumn)
  \cup OneLine({<<"f", "l", "e", "x">>}, {"html"}, StartColumn)

Init == InitWith(Documents)

Next ==
  \/ cycleStep
  \/ increaseStep
  \/ decreaseStep
  \/ toggleEnabled
  \/ toggleInlineButtons
  \/ jumpToNextNumber
  \/ jumpToPreviousNumber
  \/ cyclePropertyValueForward
  \/ cyclePropertyValueBackward
  \/ incrementValue
  \/ decrementValue
  \/ incrementValueByTenth
  \/ decrementValueByTenth
  \/ incrementValueByTen
  \/ decrementValueByTen
  \/ updateFromSelection
  \/ updateFromActiveEditor

Spec == Init /\ [][Next]_vars

(***************************************************************************)
(* What the claims speak of                                                *)
(***************************************************************************)
IncrementOps == {"incrementValue", "incrementValueByTenth", "incrementValueByTen"}

DecrementOps == {"decrementValue", "decrementValueByTenth", "decrementValueByTen"}

AdjustOps == IncrementOps \cup DecrementOps

\* the last command went forward: an increment, or the cycle command forward
MutationForward ==
  \/ last.op \in IncrementOps
  \/ last.op = "cycle" /\ last.arg = "forward"

\* the last command rewrote a keyword, by either mutator
KeywordMutated == last.target = "property"

\* the line the last command rewrote, before and after
PreLine == LineAt(last.doc, cursorLine)

PostLine == LineAt(docLines, cursorLine)

\* " !important" as the mutation writes it
CanonicalModifier == <<" ", "!", "i", "m", "p", "o", "r", "t", "a", "n", "t">>

\* the first n characters of text are optional white space, "!", optional
\* white space and "important" in any case
IsModifierOfLength(text, n) ==
  \E a \in 0..n :
    \E b \in (a + 1)..n :
      /\ b + 9 = n
      /\ n <= Len(text)
      /\ \A i \in 0..(a - 1) : Ch(text, i) \in WhiteSpace
      /\ Ch(text, a) = "!"
      /\ \A i \in (a + 1)..(b - 1) : Ch(text, i) \in WhiteSpace
      /\ ToLowerCase(Substring(text, b, n)) = <<"i", "m", "p", "o", "r", "t", "a", "n", "t">>

ModifierFollows(text) == \E n \in 1..Len(text) : IsModifierOfLength(text, n)

\* how many modifiers text holds
ModifierCount(text) ==
  Cardinality({i \in 0..(Len(text) - 1) : ModifierFollows(SubstringFrom(text, i))
                                          /\ Ch(text, i) = "!"})

\* the last keyword mutation replaced [start, end) of PreLine by text
Replaced(start, end, text) ==
  /\ last.edit = [start |-> start, end |-> end, text |-> text]
  /\ PostLine = Substring(PreLine, 0, start) \o text \o SubstringFrom(PreLine, end)

\* C1: modifier preservation in keyword mutation: when the text right after
\* the candidate's span is optional white space, "!", optional white space and
\* "important" in any case, the edit replaces the span and the modifier by
\* newValue and " !important", and the declaration holds the modifier once;
\* when no modifier follows, the span alone is replaced by newValue alone
C1_ModifierPreserved ==
  KeywordMutated =>
    \E k \in DOMAIN PROPERTY_VALUES[last.info.property] :
      IF ModifierFollows(SubstringFrom(PreLine, last.range.end))
        THEN \E n \in 1..Len(PreLine) :
               /\ IsModifierOfLength(SubstringFrom(PreLine, last.range.end), n)
               /\ Replaced(last.range.start, last.range.end + n,
                           PROPERTY_VALUES[last.info.property][k] \o CanonicalModifier)
               /\ ModifierCount(SubstringFrom(PostLine, last.range.start)) = 1
        ELSE Replaced(last.range.start, last.range.end,
                      PROPERTY_VALUES[last.info.property][k])

\* a keyword was rewritten whose modifier was spread out over 13 characters
C1_Witness ==
  /\ KeywordMutated
  /\ IsModifierOfLength(SubstringFrom(PreLine, last.range.end), 13)
  /\ ModifierCount(PostLine) = 1

\* the member the last keyword mutation is to write: the next one of the
\* family going forward, the one before going backward, around the ends
ExpectedMember(family, i) ==
  family[((i - 1 + (IF MutationForward THEN 1 ELSE Len(family) - 1)) % Len(family)) + 1]

\* C3: keyword cycling: the mutation writes the member at index
\* (currentIndex + 1) mod n going forward and (currentIndex - 1) mod n going
\* backward in the order of the table, wrapping at both ends, and the value
\* written is a member of the same family
C3_KeywordCycling ==
  KeywordMutated =>
    \E i \in DOMAIN PROPERTY_VALUES[last.info.property] :
      /\ PROPERTY_VALUES[last.info.property][i] = last.info.value
      /\ ToLowerCase(Substring(PreLine, last.range.start,
                               last.range.start + Len(last.info.value)))
           = last.info.value
      /\ last.edit.text
           \in {ExpectedMember(PROPERTY_VALUES[last.info.property], i),
                ExpectedMember(PROPERTY_VALUES[last.info.property], i)
                  \o CanonicalModifier}
      /\ StartsWithAt(PostLine, ExpectedMember(PROPERTY_VALUES[last.info.property], i),
                      last.range.start)

\* going forward from the last member of justify-content wrote the first
C3_Witness ==
  /\ KeywordMutated
  /\ MutationForward
  /\ last.info.property = JustifyContent
  /\ last.info.value = Stretch
  /\ StartsWithAt(PostLine, FlexStart, last.range.start)

\* the length of the value the last keyword mutation wrote, without the
\* modifier written after it
NewValueLength ==
  IF /\ Len(last.edit.text) > Len(CanonicalModifier)
     /\ SubstringFrom(last.edit.text, Len(last.edit.text) - Len(CanonicalModifier))
          = CanonicalModifier
    THEN Len(last.edit.text) - Len(CanonicalModifier)
    ELSE Len(last.edit.text)

Queried == last.op = "findClosest"

QueriedLineInRange ==
  last.arg.lineNumber >= 0 /\ last.arg.lineNumber < Len(docLines)

QueriedLine == LineAt(docLines, last.arg.lineNumber)

\* the reference column of the query, 0 when none was given
QueriedColumn ==
  IF last.arg.referenceColumn = Undefined THEN 0 ELSE last.arg.referenceColumn

\* C2 as stated: the span of a detected keyword covers exactly the characters
\* of the matched member, compared case-insensitively, and never any part of
\* a modifier after it: in 'center!important' the span is exactly 'center'
C2_KeywordSpanIsMember ==
  (Queried /\ last.info # NoPropertyInfo) =>
    /\ last.info.end - last.info.start = Len(last.info.value)
    /\ ToLowerCase(Substring(QueriedLine, last.info.start, last.info.end))
         = last.info.value

\* the candidates of the queried line in scan order: number ranges, and
\* keyword candidates
NumberCandidates ==
  IF QueriedLineInRange
    THEN getNumberRangesOnLine(docLines, docLanguageId, last.arg.lineNumber)
    ELSE <<>>

KeywordCandidates ==
  IF QueriedLineInRange /\ docLanguageId \in {"css", "scss", "less"}
    THEN PropertyValueMatches(QueriedLine)
    ELSE <<>>

\* the span [start, end] holds the column, its end included
SpanHolds(span, col) == span.start <= col /\ col <= span.end

\* twice the distance from the midpoint of the span to the column
MidpointDistance2(span, col) ==
  IF span.start + span.end >= 2 * col
    THEN span.start + span.end - 2 * col
    ELSE 2 * col - span.start - span.end

\* candidate k is the one nearest-match selection returns
IsNearestMatch(candidates, k, col) ==
  IF \E j \in 1..Len(candidates) : SpanHolds(candidates[j], col)
    THEN /\ SpanHolds(candidates[k], col)
         /\ \A j \in 1..(k - 1) : ~SpanHolds(candidates[j], col)
    ELSE /\ \A j \in 1..Len(candidates) :
              MidpointDistance2(candidates[k], col) <= MidpointDistance2(candidates[j], col)
         /\ \A j \in 1..(k - 1) :
              MidpointDistance2(candidates[k], col) < MidpointDistance2(candidates[j], col)

\* the result is what nearest-match selection returns over the candidates
SelectedAmong(candidates, result, none, col) ==
  IF Len(candidates) = 0
    THEN result = none
    ELSE /\ result # none
         /\ \E k \in 1..Len(candidates) :
              result = candidates[k] /\ IsNearestMatch(candidates, k, col)

\* C4: nearest-match selection: for every reference column the result is the
\* first candidate in scan order whose span holds the column, end included,
\* if there is one, and else the candidate of least distance from its
\* midpoint to the column, the earliest of equal ones; the result is none
\* exactly when the list is empty or the line index is out of range
C4_NearestMatchSelection ==
  Queried =>
    /\ SelectedAmong(NumberCandidates, last.range, NoRange, QueriedColumn)
    /\ SelectedAmong(KeywordCandidates, last.info, NoPropertyInfo, QueriedColumn)
    /\ ~QueriedLineInRange => (last.range = NoRange /\ last.info = NoPropertyInfo)

\* a query between two number candidates as far from one as from the other
\* returned the earlier one
C4_Witness ==
  /\ Queried
  /\ Len(NumberCandidates) > 1
  /\ last.range = NumberCandidates[1]
  /\ ~SpanHolds(NumberCandidates[1], QueriedColumn)
  /\ ~SpanHolds(NumberCandidates[2], QueriedColumn)
  /\ MidpointDistance2(NumberCandidates[1], QueriedColumn)
       = MidpointDistance2(NumberCandidates[2], QueriedColumn)

(***************************************************************************)
(* Arbitration and navigation                                              *)
(***************************************************************************)
\* the last command was an increment or a decrement that acted on a candidate
Adjusted == last.op \in AdjustOps /\ last.target \in {"number", "property"}

\* the reference column the command used: the cursor's when the cursor was on
\* the line acted on, else 0
AdjustedColumn == IF last.cursorLine = cursorLine THEN last.cursorCol ELSE 0

\* the candidates of the line acted on, as they were before the command
NumberCandidate ==
  findClosestNumberRangeOnLine(last.doc, docLanguageId, cursorLine, AdjustedColumn)

KeywordCandidate ==
  findClosestPropertyValueRangeOnLine(last.doc, docLanguageId, cursorLine, AdjustedColumn)

\* the kind the arbitration rule names
ArbitratedKind(number, keyword, col) ==
  IF SpanHolds(keyword, col) /\ ~SpanHolds(number, col)
    THEN "property"
    ELSE IF SpanHolds(number, col) /\ ~SpanHolds(keyword, col)
           THEN "number"
           ELSE IF MidpointDistance2(number, col) < MidpointDistance2(keyword, col)
                  THEN "number"
                  ELSE "property"

\* C5 as stated: when a line has a number candidate and a keyword candidate,
\* the adjustment acts on the one whose span holds the reference column; when
\* neither does, on the number only if its midpoint is strictly closer to the
\* column than the keyword's, and on the keyword otherwise
C5_NumberKeywordArbitration ==
  (Adjusted /\ NumberCandidate # NoRange /\ KeywordCandidate # NoPropertyInfo) =>
    last.target = ArbitratedKind(NumberCandidate, KeywordCandidate, AdjustedColumn)

\* the number candidates of the cursor's line, which the jumps go round
JumpCandidates == getNumberRangesOnLine(docLines, docLanguageId, cursorLine)

\* C6 as stated: on a line with n number candidates, n jumps in one
\* direction from the cursor on candidate i visit every candidate once and
\* return to candidate i, each jump leaving the cursor at the start column of
\* its target
C6_RelativeNavigationCyclic ==
  /\ last.op = "jump" /\ last.target = "number" => cursorCol = last.range.start
  /\ (nav.dir # "none" /\ nav.onOrigin /\ nav.count = Len(JumpCandidates)) =>
       /\ nav.visited = 1..Len(JumpCandidates)
       /\ cursorCol = JumpCandidates[nav.origin].start

(***************************************************************************)
(* Utility-class numbers                                                   *)
(***************************************************************************)
\* the last command rewrote the number of a utility class
TailwindMutated ==
  /\ last.op \in AdjustOps
  /\ last.target = "number"
  /\ last.edit # NoEdit
  /\ docLanguageId \in {"html", "javascriptreact", "typescriptreact"}

\* the number text the command found, and the one it left in its place
OldNumberText == Substring(PreLine, last.range.start, last.range.end)

NewNumberLength == Len(PostLine) - Len(PreLine) + (last.range.end - last.range.start)

WrittenNumberText ==
  Substring(PostLine, last.range.start, last.range.start + NewNumberLength)

\* [from, to) of text holds only characters of the set
OnlyOf(text, from, to, chars) == \A i \in from..(to - 1) : Ch(text, i) \in chars

\* C7: compound tokens are replaced whole: the candidate span of a utility
\* class covers only its number part, and the edit covers the whole token
\* from the start of its prefix to the end of its suffix, writing the prefix,
\* the hyphen, the new number and the suffix back, so that nothing but the
\* number changes: w-12 incremented by the unit step becomes w-13
C7_CompoundTokenReplacedWhole ==
  TailwindMutated =>
    /\ Ch(PreLine, last.range.start) \in Digits
    /\ OnlyOf(PreLine, last.range.start, last.range.end, Digits \cup {"."})
    /\ Ch(PreLine, last.range.start - 1) = "-"
    /\ last.edit.start < last.range.start - 1
    /\ OnlyOf(PreLine, last.edit.start, last.range.start - 1, LowerLetters \cup {"-"})
    /\ last.edit.start = 0 \/ Ch(PreLine, last.edit.start - 1) \notin WordChars
    /\ last.edit.end >= last.range.end
    /\ OnlyOf(PreLine, last.range.end, last.edit.end, LowerLetters)
    /\ last.edit.end = Len(PreLine) \/ Ch(PreLine, last.edit.end) \notin LowerLetters
    /\ NewNumberLength > 0
    /\ last.edit.text = Substring(PreLine, last.edit.start, last.range.start)
                        \o WrittenNumberText
                        \o Substring(PreLine, last.range.end, last.edit.end)
    /\ PostLine = Substring(PreLine, 0, last.range.start)
                  \o WrittenNumberText
                  \o SubstringFrom(PreLine, last.range.end)
    /\ OnlyOf(WrittenNumberText, 0, NewNumberLength, Digits \cup {".", "-"})
    /\ (/\ PreLine = <<"w", "-", "1", "2">>
        /\ last.op = "incrementValue"
        /\ last.step = "one") => PostLine = <<"w", "-", "1", "3">>

\* the number of a class with a hyphen in its prefix and with a suffix was
\* rewritten, and the number of w-12 was
C7_Witness ==
  /\ TailwindMutated
  /\ last.edit.start < last.range.start - 2
  /\ last.edit.end > last.range.end
  /\ WrittenNumberText # OldNumberText

\* w-12 incremented by the unit step became w-13
C7_WitnessUnit ==
  /\ TailwindMutated
  /\ PreLine = <<"w", "-", "1", "2">>
  /\ PostLine = <<"w", "-", "1", "3">>

\* text is an optional minus sign, digits and at most one decimal digit
IsDecimal(text) ==
  \E s \in {0, 1} :
    \E d \in (s + 1)..Len(text) :
      /\ s = 1 => Ch(text, 0) = "-"
      /\ OnlyOf(text, s, d, Digits)
      /\ d = Len(text) \/ (d + 2 = Len(text) /\ Ch(text, d) = "." /\ Ch(text, d + 1) \in Digits)

\* ten times the number a decimal text stands for
TenTimes(text) ==
  IF Ch(text, 0) = "-"
    THEN 0 - ParseFloatTenths(SubstringFrom(text, 1))
    ELSE ParseFloatTenths(text)

HasPoint(text) == \E i \in 0..(Len(text) - 1) : Ch(text, i) = "."

\* ten times the number the last command was to write
TenTimesExpected ==
  IF last.op \in IncrementOps
    THEN TenTimes(OldNumberText) + StepAmountTenths(last.step)
    ELSE TenTimes(OldNumberText) - StepAmountTenths(last.step)

\* C8: utility-class number formatting: with the 0.1 step the new number is
\* written with one decimal digit and a trailing ".0" removed, so gap-2
\* decremented is gap-1.9 and gap-1.9 incremented is gap-2; with the unit
\* and decade steps it is written as the integer nearest to it
C8_UtilityNumberFormatting ==
  TailwindMutated =>
    /\ IsDecimal(WrittenNumberText)
    /\ IF last.step = "tenth"
         THEN /\ TenTimes(WrittenNumberText) = TenTimesExpected
              /\ HasPoint(WrittenNumberText) <=> TenTimesExpected % 10 # 0
         ELSE /\ ~HasPoint(WrittenNumberText)
              /\ TenTimes(WrittenNumberText) - TenTimesExpected \in (0 - 5)..5
    /\ (/\ PreLine = <<"g", "a", "p", "-", "2">>
        /\ last.op = "decrementValue"
        /\ last.step = "tenth") => PostLine = <<"g", "a", "p", "-", "1", ".", "9">>
    /\ (/\ PreLine = <<"g", "a", "p", "-", "1", ".", "9">>
        /\ last.op = "incrementValue"
        /\ last.step = "tenth") => PostLine = <<"g", "a", "p", "-", "2">>

\* gap-1.9, itself written by a decrement of gap-2, was incremented to gap-2
C8_Witness ==
  /\ TailwindMutated
  /\ edits = 2
  /\ last.step = "tenth"
  /\ PreLine = <<"g", "a", "p", "-", "1", ".", "9">>
  /\ PostLine = <<"g", "a", "p", "-", "2">>

(***************************************************************************)
(* The step                                                                *)
(***************************************************************************)
\* the step after each step, going round
StepAfter == [tenth |-> "one", one |-> "ten", ten |-> "tenth"]

\* the commands that leave the step alone
StepKeepingOps ==
  AdjustOps \cup {"cycle", "jump", "toggleEnabled", "toggleInlineButtons"}

\* C9: the step state machine: the step is one of 0.1, 1 and 10 and starts
\* at 1; cycleStep and increaseStep take 0.1 to 1, 1 to 10 and 10 to 0.1, and
\* decreaseStep goes the other way, so that increaseStep followed by
\* decreaseStep, and three cycleSteps, return to the step they began with
C9_StepStateMachine ==
  /\ currentStep \in DOMAIN StepAfter
  /\ last.op = "activate" => currentStep = "one"
  /\ last.op \in {"cycleStep", "increaseStep"} => currentStep = StepAfter[last.step]
  /\ last.op = "decreaseStep" => StepAfter[currentStep] = last.step
  /\ last.op \in StepKeepingOps => currentStep = last.step
  /\ \A s \in DOMAIN StepAfter : StepAfter[StepAfter[StepAfter[s]]] = s

\* cycleStep took the step from 10 round to 0.1
C9_Witness ==
  /\ last.op = "cycleStep"
  /\ last.step = "ten"
  /\ currentStep = "tenth"

\* decreaseStep took the step from 0.1 round to 10
C9_WitnessDecrease ==
  /\ last.op = "decreaseStep"
  /\ last.step = "tenth"
  /\ currentStep = "ten"

(***************************************************************************)
(* Failure and gating                                                      *)
(***************************************************************************)
\* the last command neither wrote nor moved anything
NothingDone ==
  /\ docLines = last.doc
  /\ cursorLine = last.cursorLine
  /\ cursorCol = last.cursorCol

\* C11 as stated: fail-quiet: for every line, cursor column and dialect,
\* detection and mutation either produce an edit or do nothing and never
\* throw; a declaration whose property name is no family of the table yields
\* no candidate, and an unknown family or a value outside its family results
\* in no edit
C11_FailQuiet ==
  /\ last.target # "throw"
  /\ last.info # TypeError
  /\ last.info # NoPropertyInfo =>
       /\ last.info.property \in DOMAIN PROPERTY_VALUES
       /\ \E k \in DOMAIN PROPERTY_VALUES[last.info.property] :
            PROPERTY_VALUES[last.info.property][k] = last.info.value
  /\ (last.op \in AdjustOps \cup {"cycle"} /\ last.target = "none") => NothingDone

\* the cases in which the jump command has nothing to do
JumpHasNothing ==
  \/ ~activeEditor
  \/ ~isEnabled
  \/ docLanguageId \notin {"css", "scss", "less", "html", "javascriptreact", "typescriptreact"}
  \/ getNumberRangesOnLine(last.doc, docLanguageId, last.cursorLine) = <<>>

\* the cases in which the cycle command has nothing to do
CycleHasNothing ==
  \/ ~activeEditor
  \/ ~isEnabled
  \/ docLanguageId \notin {"css", "scss", "less"}
  \/ PropertyValueMatches(LineAt(last.doc, last.cursorLine)) = <<>>

\* C12 as stated: the jump and cycle commands are no-ops, with the text and
\* the cursor unchanged and nothing thrown, when there is no active editor,
\* when the extension is disabled, when the language is unsupported, or when
\* the current line has no candidate
C12_CommandsNoOp ==
  /\ (last.op = "jump" /\ JumpHasNothing) => (last.target = "none" /\ NothingDone)
  /\ (last.op = "cycle" /\ CycleHasNothing) => (last.target = "none" /\ NothingDone)

CssLikeLanguages == {"css", "scss", "less"}

HtmlOrJsxLanguages == {"html", "javascriptreact", "typescriptreact"}

\* the spans the declaration-number rule finds on a line, and the number
\* spans the compound-token rule finds
DeclarationNumberSpans(lineText) ==
  {CssNumberMatches(lineText, 0)[k] : k \in 1..Len(CssNumberMatches(lineText, 0))}

CompoundTokenSpans(lineText) ==
  {[start |-> TailwindMatches(lineText, 0)[k].numberStart,
    end   |-> TailwindMatches(lineText, 0)[k].numberEnd] :
     k \in 1..Len(TailwindMatches(lineText, 0))}

\* the spans of the numeric scan of the queried line
ScannedSpans ==
  {getNumberRangesOnLine(docLines, docLanguageId, last.arg.lineNumber)[k] :
     k \in 1..Len(getNumberRangesOnLine(docLines, docLanguageId, last.arg.lineNumber))}

\* C13: dialect gating: in a document that is neither CSS-like nor HTML/JSX
\* the numeric scan returns no candidate; keyword detection returns a
\* candidate only in CSS-like documents, so never on an HTML/JSX line;
\* CSS-like lines are scanned with the declaration-number rule alone and
\* HTML/JSX lines with the compound-token rule alone
C13_DialectGating ==
  (Queried /\ QueriedLineInRange) =>
    /\ docLanguageId \notin CssLikeLanguages \cup HtmlOrJsxLanguages =>
         (ScannedSpans = {} /\ last.range = NoRange)
    /\ docLanguageId \notin CssLikeLanguages => last.info = NoPropertyInfo
    /\ docLanguageId \in CssLikeLanguages =>
         (ScannedSpans = DeclarationNumberSpans(QueriedLine)
          /\ last.range \in ScannedSpans \cup {NoRange})
    /\ docLanguageId \in HtmlOrJsxLanguages =>
         (ScannedSpans = CompoundTokenSpans(QueriedLine)
          /\ last.range \in ScannedSpans \cup {NoRange})

\* a page line with a declaration of the table and a number was queried: no
\* keyword candidate, and no number the declaration rule would find
C13_Witness ==
  /\ Queried
  /\ QueriedLineInRange
  /\ docLanguageId \in HtmlOrJsxLanguages
  /\ PropertyValueMatches(QueriedLine) # <<>>
  /\ DeclarationNumberSpans(QueriedLine) # {}
  /\ last.info = NoPropertyInfo
  /\ last.range = NoRange

\* a plain text line the compound-token rule has matches on was queried
C13_WitnessUnsupported ==
  /\ Queried
  /\ QueriedLineInRange
  /\ docLanguageId = "plaintext"
  /\ CompoundTokenSpans(QueriedLine) # {}
  /\ last.range = NoRange

\* the numeric scan of the queried line, in the order it returns
Scanned == getNumberRangesOnLine(docLines, docLanguageId, last.arg.lineNumber)

\* C14: the numeric scan of a CSS-like line returns spans from left to right
\* that are non-empty, strictly increasing and non-overlapping (the end of
\* one is at most the start of the next), each with
\* 0 <= start < end <= length(line)
C14_ScanOrdered ==
  (Queried /\ QueriedLineInRange /\ docLanguageId \in CssLikeLanguages) =>
    /\ \A k \in 1..Len(Scanned) :
         /\ 0 <= Scanned[k].start
         /\ Scanned[k].start < Scanned[k].end
         /\ Scanned[k].end <= Len(QueriedLine)
    /\ \A k \in 1..(Len(Scanned) - 1) :
         /\ Scanned[k].start < Scanned[k + 1].start
         /\ Scanned[k].end <= Scanned[k + 1].start

\* a CSS-like line was scanned on which one span ends where the next starts,
\* and a third follows apart
C14_Witness ==
  /\ Queried
  /\ QueriedLineInRange
  /\ docLanguageId \in CssLikeLanguages
  /\ Len(Scanned) >= 3
  /\ Scanned[1].end = Scanned[2].start
  /\ Scanned[2].end < Scanned[3].start

\* the candidates a scan of the queried line yields with the cursor of the
\* pattern at 0
FreshScan ==
  IF docLanguageId \in CssLikeLanguages
    THEN CssNumberMatches(QueriedLine, 0)
    ELSE [k \in 1..Len(TailwindMatches(QueriedLine, 0)) |->
            [start |-> TailwindMatches(QueriedLine, 0)[k].numberStart,
             end   |-> TailwindMatches(QueriedLine, 0)[k].numberEnd]]

\* C15: scanning is independent of earlier calls: the compound-token
\* mutation can leave the match cursor of the shared pattern non-zero, but
\* every scan resets it to 0 first, so after any sequence of scans and
\* mutations a scan of a line yields the candidates a first scan of that
\* text yields
C15_ScanIndependent ==
  (Queried /\ QueriedLineInRange /\ docLanguageId \in CssLikeLanguages \cup HtmlOrJsxLanguages) =>
    /\ last.arg.ranges = FreshScan
    /\ SelectedAmong(FreshScan, last.range, NoRange, QueriedColumn)

\* a line of several classes was scanned while the match cursor stood behind
\* the first of them
C15_Witness ==
  /\ Queried
  /\ QueriedLineInRange
  /\ last.lastIndex > 0
  /\ Len(last.arg.ranges) >= 2
  /\ last.arg.ranges[1].start < last.lastIndex

(***************************************************************************)
(* The inline buttons                                                      *)
(***************************************************************************)
Provided == last.op = "provideCodeLenses"

\* the provider returned
Returned == Provided /\ ~last.arg.thrown

\* one of the conditions under which no button is shown
NoLensCondition ==
  \/ ~activeEditor
  \/ ~last.arg.sameDocument
  \/ ~isEnabled
  \/ ~enableInlineButtons
  \/ activeLine = Undefined
  \/ (~hasActiveNumber /\ ~hasActivePropertyValue)

C16_WitnessInlineOff ==
  /\ Returned
  /\ activeEditor
  /\ last.arg.sameDocument
  /\ isEnabled
  /\ ~enableInlineButtons
  /\ hasActiveNumber
  /\ last.arg.lenses = <<>>

\* the provider returned lenses
Shown == Returned /\ last.arg.lenses # <<>>

\* one of the lenses returned has this title and command
HasLens(title, command) ==
  \E k \in 1..Len(last.arg.lenses) :
    /\ last.arg.lenses[k].title = title
    /\ last.arg.lenses[k].command = command

\* one of the lenses returned has this title and command and carries the
\* active line
HasLineLens(title, command) ==
  \E k \in 1..Len(last.arg.lenses) :
    /\ last.arg.lenses[k].title = title
    /\ last.arg.lenses[k].command = command
    /\ last.arg.lenses[k].arguments = <<activeLine>>

StepLabel == IF currentStep = "tenth" THEN "0.1" ELSE IF currentStep = "one" THEN "1" ELSE "10"

StepSuffix == IF currentStep = "tenth" THEN "ByTenth" ELSE IF currentStep = "one" THEN "" ELSE "ByTen"

HasStepLens ==
  \E k \in 1..Len(last.arg.lenses) : last.arg.lenses[k].command = "css-controls.cycleStep"

\* C17: the lenses shown always include the help lens '?' and the decrement
\* and increment lenses, which carry the active line as argument and the
\* commands of the current step; the step-indicator lens ('x' + step label,
\* command cycleStep) is included exactly when a number is active and no
\* property value is active
C17_LensesShown ==
  Shown =>
    /\ HasLens("?", "css-controls.openDocs")
    /\ HasLineLens("▼", "css-controls.decrementValue" \o StepSuffix)
    /\ HasLineLens("▲", "css-controls.incrementValue" \o StepSuffix)
    /\ HasStepLens <=> (hasActiveNumber /\ ~hasActivePropertyValue)
    /\ HasStepLens => HasLens("x" \o StepLabel, "css-controls.cycleStep")

\* lenses with the step indicator, at a step other than the initial one
C17_Witness ==
  /\ Shown
  /\ hasActiveNumber
  /\ ~hasActivePropertyValue
  /\ currentStep = "ten"
  /\ HasLens("x10", "css-controls.cycleStep")
  /\ Len(last.arg.lenses) = 4

\* lenses without the step indicator on a line with a number and a keyword
C17_WitnessBoth ==
  /\ Shown
  /\ hasActiveNumber
  /\ hasActivePropertyValue
  /\ ~HasStepLens
  /\ Len(last.arg.lenses) = 3

(***************************************************************************)
(* The state of the extension                                              *)
(***************************************************************************)
ToggleOps == {"toggleEnabled", "toggleInlineButtons"}

\* the last command was a toggle command: the flags are those it started
\* from with its own flag flipped
Toggled ==
  /\ last.op = "toggleEnabled" =>
       /\ isEnabled = ~last.isEnabled
       /\ enableInlineButtons = last.enableInlineButtons
  /\ last.op = "toggleInlineButtons" =>
       /\ enableInlineButtons = ~last.enableInlineButtons
       /\ isEnabled = last.isEnabled

\* a step from the state a toggle command left to the state the same command
\* leaves again
ToggledTwice ==
  /\ last.op \in ToggleOps
  /\ last'.op = last.op
  /\ last' # last

\* C18: toggleEnabled flips isEnabled and leaves enableInlineButtons
\* unchanged; toggleInlineButtons flips enableInlineButtons and leaves
\* isEnabled unchanged; invoking either command twice restores the original
\* flag values
C18_Toggles ==
  [][/\ Toggled'
     /\ ToggledTwice =>
          /\ isEnabled' = last.isEnabled
          /\ enableInlineButtons' = last.enableInlineButtons]_vars

\* toggleInlineButtons has switched the inline buttons off and left the
\* extension enabled
C18_Witness ==
  /\ last.op = "toggleInlineButtons"
  /\ last.isEnabled
  /\ last.enableInlineButtons
  /\ isEnabled
  /\ ~enableInlineButtons

\* toggleEnabled has switched the extension on again
C18_WitnessOn ==
  /\ last.op = "toggleEnabled"
  /\ ~last.isEnabled
  /\ isEnabled

\* updateFromActiveEditor has run: the state holds its editor and the line of
\* the cursor of that editor, or neither
EditorTracked ==
  last.op = "editor" =>
    /\ activeEditor = last.arg
    /\ activeLine = IF last.arg THEN cursorLine ELSE Undefined

\* updateFromSelection has run: with an active editor and a selection the
\* active line is the line of the first selection
SelectionFollowed ==
  (last.op = "select" /\ activeEditor /\ last.arg # <<>>) =>
    activeLine = last.arg[1].line

\* a step of updateFromSelection without an active editor
SelectedWithoutEditor == last'.op = "select" /\ ~activeEditor

\* C19: after updateFromActiveEditor(e), activeEditor is e and activeLine is
\* the cursor line of e (both undefined when e is undefined);
\* updateFromSelection sets activeLine to the line of the first selection only
\* while an active editor exists; hence in every reachable state activeLine is
\* defined only if activeEditor is defined
C19_StateTracking ==
  /\ [](EditorTracked /\ SelectionFollowed)
  /\ [][SelectedWithoutEditor => activeLine' = activeLine]_vars
  /\ [](activeLine # Undefined => activeEditor)

\* the editor came back with its cursor on the second line
C19_Witness ==
  /\ last.op = "editor"
  /\ last.arg
  /\ activeEditor
  /\ cursorLine = 1
  /\ activeLine = 1

\* a selection arrived while no editor was active
C19_WitnessNoEditor ==
  /\ last.op = "select"
  /\ last.arg # <<>>
  /\ ~activeEditor
  /\ activeLine = Undefined

(***************************************************************************)
(* The example of the modifier                                             *)
(***************************************************************************)
\* justify-content: center !important;
CenterImportantLine ==
  <<"j", "u", "s", "t", "i", "f", "y", "-", "c", "o", "n", "t", "e", "n", "t", ":", " ",
    "c", "e", "n", "t", "e", "r", " ", "!", "i", "m", "p", "o", "r", "t", "a", "n", "t", ";">>

\* justify-content: flex-start !important;
FlexStartImportantLine ==
  <<"j", "u", "s", "t", "i", "f", "y", "-", "c", "o", "n", "t", "e", "n", "t", ":", " ",
    "f", "l", "e", "x", "-", "s", "t", "a", "r", "t", " ", "!", "i", "m", "p", "o", "r", "t", "a", "n", "t", ";">>

\* justify-content: space-between !important;
SpaceBetweenImportantLine ==
  <<"j", "u", "s", "t", "i", "f", "y", "-", "c", "o", "n", "t", "e", "n", "t", ":", " ",
    "s", "p", "a", "c", "e", "-", "b", "e", "t", "w", "e", "e", "n", " ", "!", "i", "m", "p", "o", "r", "t", "a", "n", "t", ";">>

\* the last command cycled the line of the example forward
CenterImportantCycled ==
  /\ last.op = "cycle"
  /\ last.arg = "forward"
  /\ last.doc # <<>>
  /\ PreLine = CenterImportantLine

\* C20, as stated: forward-cycling the line
\* `justify-content: center !important;` yields
\* `justify-content: flex-start !important;`, with exactly one `!important` in
\* the result
C20_CenterToFlexStart ==
  CenterImportantCycled =>
    /\ PostLine = FlexStartImportantLine
    /\ ModifierCount(PostLine) = 1

\* C20, amended: forward-cycling the line
\* `justify-content: center !important;` yields
\* `justify-content: space-between !important;`, the member after `center` in
\* the justify-content family of the table, with exactly one `!important` in
\* the result
C20_CenterToSpaceBetween ==
  CenterImportantCycled =>
    /\ PostLine = SpaceBetweenImportantLine
    /\ ModifierCount(PostLine) = 1

\* the line of the example was cycled forward and holds the next member and
\* one modifier
C20_Witness ==
  /\ CenterImportantCycled
  /\ last.target = "property"
  /\ PostLine = SpaceBetweenImportantLine
  /\ ModifierCount(PostLine) = 1


(***************************************************************************)
(* Completeness of keyword detection                                       *)
(***************************************************************************)
\* member k of `family` stands at column v of the line and is followed by the
\* end of the value, white space or "!"
MemberAt(lineText, family, k, v) ==
  /\ StartsWithAt(ToLowerCase(lineText), PROPERTY_VALUES[family][k], v)
  /\ Ch(lineText, v + Len(PROPERTY_VALUES[family][k])) \in WhiteSpace \cup {"", ";", "!"}

\* a declaration of `family` starts at column p of the line, its value at
\* column v: the name, white space, the colon, white space
DeclarationAt(lineText, family, p, v) ==
  /\ Ch(lineText, p - 1) \notin NameChars
  /\ StartsWithAt(ToLowerCase(lineText), family, p)
  /\ \E c \in (p + Len(family))..(v - 1) :
       /\ Ch(lineText, c) = ":"
       /\ \A i \in (p + Len(family))..(v - 1) : i # c => Ch(lineText, i) \in WhiteSpace
  /\ Ch(lineText, v) \notin WhiteSpace

\* the scan reports member k of `family` at column v
Reported(family, k, v) ==
  \E j \in 1..Len(KeywordCandidates) :
    /\ KeywordCandidates[j].property = family
    /\ KeywordCandidates[j].value = PROPERTY_VALUES[family][k]
    /\ KeywordCandidates[j].start = v

\* C21: keyword detection completeness: every declaration on a CSS-like line
\* whose lowercased property name is a family of the table and whose value
\* begins with a member followed by end of value, white space or "!" is
\* reported as a candidate, with any amount of white space around the colon,
\* with or without a terminating ";", and whatever text (including other
\* colons, as in a selector with a pseudo-class) precedes the declaration on
\* the same line
C21_KeywordsComplete ==
  (Queried /\ QueriedLineInRange /\ docLanguageId \in CssLikeLanguages) =>
    \A family \in DOMAIN PROPERTY_VALUES :
      \A k \in DOMAIN PROPERTY_VALUES[family] :
        \A p \in 0..Len(QueriedLine) :
          \A v \in p..Len(QueriedLine) :
            (DeclarationAt(QueriedLine, family, p, v) /\ MemberAt(QueriedLine, family, k, v))
              => Reported(family, k, v)

\* every colon before column p belongs to a declaration that a ";" ends
\* before p
NoColonBefore(lineText, p) ==
  \A i \in 0..(p - 1) : Ch(lineText, i) = ":" => \E q \in i..(p - 1) : Ch(lineText, q) = ";"

\* the declarations that no unterminated colon precedes are all reported

C21_CompleteBehindPlainText ==
  (Queried /\ QueriedLineInRange /\ docLanguageId \in CssLikeLanguages) =>
    \A family \in DOMAIN PROPERTY_VALUES :
      \A k \in DOMAIN PROPERTY_VALUES[family] :
        \A p \in 0..Len(QueriedLine) :
          \A v \in p..Len(QueriedLine) :
            (/\ DeclarationAt(QueriedLine, family, p, v)
             /\ MemberAt(QueriedLine, family, k, v)
             /\ NoColonBefore(QueriedLine, p))
              => Reported(family, k, v)


(***************************************************************************)
(* Delegation to the host                                                  *)
(***************************************************************************)
\* the magnitude of the last adjustment command: the one in its name, or
\* the step it started from
CommandStep ==
  IF last.op \in {"incrementValueByTenth", "decrementValueByTenth"}
    THEN "tenth"
    ELSE IF last.op \in {"incrementValueByTen", "decrementValueByTen"}
           THEN "ten"
           ELSE last.step

\* the Emmet command of a magnitude and a direction
EmmetOf(step, increment) ==
  "editor.emmet.action."
    \o (IF increment THEN "increment" ELSE "decrement")
    \o "NumberBy"
    \o (IF step = "tenth" THEN "OneTenth" ELSE IF step = "one" THEN "One" ELSE "Ten")

\* the last command adjusted a number of a CSS-like document
CssNumberAdjusted ==
  /\ last.op \in AdjustOps
  /\ last.target = "number"
  /\ docLanguageId \in CssLikeLanguages

\* C22: delegation ordering: for a numeric adjustment on a CSS-like line the
\* cursor is first moved to the start of the selected numeric candidate and
\* only then is the host increment primitive (the Emmet command of the chosen
\* magnitude and direction) invoked, exactly once; the primitive is never
\* invoked for HTML/JSX documents, when a keyword candidate is chosen, or when
\* the line has no candidate
C22_DelegationOrdering ==
  last.op \in AdjustOps =>
    IF CssNumberAdjusted
      THEN /\ last.range = NumberCandidate
           /\ last.emmet = <<[command |-> EmmetOf(CommandStep, last.op \in IncrementOps),
                              line |-> cursorLine,
                              character |-> last.range.start]>>
           /\ cursorCol = last.range.start
      ELSE last.emmet = <<>>

\* a decrement by ten was delegated with the cursor moved from the end of a
\* number to its start
C22_Witness ==
  /\ CssNumberAdjusted
  /\ last.op = "decrementValueByTen"
  /\ last.cursorCol > last.range.start
  /\ cursorCol = last.range.start
  /\ Len(last.emmet) = 1
  /\ last.emmet[1].character = last.range.start
  /\ last.emmet[1].command = "editor.emmet.action.decrementNumberByTen"

\* a number of a page was adjusted without the host primitive
C22_WitnessPage ==
  /\ last.op \in AdjustOps
  /\ last.target = "number"
  /\ docLanguageId \in HtmlOrJsxLanguages
  /\ last.emmet = <<>>


(***************************************************************************)
(* Detectability after an adjustment                                       *)
(***************************************************************************)
\* the scan of the rewritten line finds the rewritten class as a candidate:
\* a match at the place of the class, with its prefix, a number at the place
\* of the old one, and its suffix
RewrittenClassDetected ==
  \E k \in 1..Len(TailwindMatches(PostLine, 0)) :
    /\ TailwindMatches(PostLine, 0)[k].index = last.edit.start
    /\ TailwindMatches(PostLine, 0)[k].numberStart = last.range.start
    /\ Substring(PostLine, TailwindMatches(PostLine, 0)[k].index,
                 TailwindMatches(PostLine, 0)[k].prefixEnd)
         = Substring(PreLine, last.edit.start, last.range.start - 1)
    /\ Substring(PostLine, TailwindMatches(PostLine, 0)[k].numberEnd,
                 TailwindMatches(PostLine, 0)[k].end)
         = Substring(PreLine, last.range.end, last.edit.end)

\* C23: detectability is preserved by adjustment: after any sequence of
\* increment / decrement commands applied to a compound token on an HTML/JSX
\* line (including decrements that take the number to or below 0), the
\* rewritten token is still detected by the scanner as a numeric candidate
\* with the same prefix and suffix, so a further adjustment always has the
\* same target
C23_DetectabilityPreserved ==
  TailwindMutated => RewrittenClassDetected

\* the rewritten token is detected whenever the number written is not
\* negative
C23_DetectableFromZeroUp ==
  (TailwindMutated /\ Ch(WrittenNumberText, 0) # "-") => RewrittenClassDetected


(***************************************************************************)
(* The commands with a magnitude in their name                             *)
(***************************************************************************)
StepSpecificOps ==
  {"incrementValueByTenth", "decrementValueByTenth", "incrementValueByTen",
   "decrementValueByTen"}

\* the magnitude in the name of the last command, in tenths
NamedMagnitudeTenths ==
  IF last.op \in {"incrementValueByTenth", "decrementValueByTenth"} THEN 1 ELSE 100

\* ten times the number the last command was to write by its name
TenTimesNamed ==
  IF last.op \in IncrementOps
    THEN TenTimes(OldNumberText) + NamedMagnitudeTenths
    ELSE TenTimes(OldNumberText) - NamedMagnitudeTenths

\* the last command, one with a magnitude in its name, changed the number of
\* a utility class by that magnitude
ChangedByNamedMagnitude ==
  /\ IsDecimal(WrittenNumberText)
  /\ TenTimes(WrittenNumberText) - TenTimesNamed \in (0 - 5)..5
  /\ NamedMagnitudeTenths = 1 => TenTimes(WrittenNumberText) = TenTimesNamed

\* C24: the step-specific commands incrementValueByTenth,
\* decrementValueByTenth, incrementValueByTen and decrementValueByTen change
\* the targeted number by the magnitude in their name (0.1 or 10) in both
\* dialects, whatever the current step is at the time of the call
C24_NamedMagnitude ==
  (last.op \in StepSpecificOps /\ last.target = "number") =>
    /\ CssNumberAdjusted =>
         /\ Len(last.emmet) = 1
         /\ last.emmet[1].command = EmmetOf(CommandStep, last.op \in IncrementOps)
    /\ TailwindMutated => ChangedByNamedMagnitude

\* the same where the step agrees with the name of the command, and in every
\* style sheet
C24_NamedMagnitudeAtItsStep ==
  (last.op \in StepSpecificOps /\ last.target = "number") =>
    /\ CssNumberAdjusted =>
         /\ Len(last.emmet) = 1
         /\ last.emmet[1].command = EmmetOf(CommandStep, last.op \in IncrementOps)
    /\ (TailwindMutated /\ last.step = CommandStep) => ChangedByNamedMagnitude


(***************************************************************************)
(* The disabled extension                                                  *)
(***************************************************************************)
\* the last command started while the extension was disabled
RanDisabled == ~last.isEnabled

\* C25: disabled means inert: in every state where isEnabled is false, no
\* command (jump, keyword cycle, incrementValue / decrementValue and their
\* ByTenth / ByTen variants) changes the document text or the cursor
C25_DisabledInert ==
  (last.op \in AdjustOps \cup {"jump", "cycle"} /\ RanDisabled) => NothingDone

\* the jump and the keyword cycle commands are inert while disabled
C25_JumpAndCycleInert ==
  (last.op \in {"jump", "cycle"} /\ RanDisabled) => (NothingDone /\ last.target = "none")


(***************************************************************************)
(* Inverse adjustments of utility classes                                  *)
(***************************************************************************)
\* a step from the state one adjustment of a utility class left to the state
\* the opposite adjustment of the same class leaves, at the same step and with
\* no number below 0 on the way
InversePair ==
  /\ TailwindMutated
  /\ last.op \in {"incrementValue", "decrementValue"}
  /\ last'.op \in {"incrementValue", "decrementValue"}
  /\ last'.op # last.op
  /\ last'.step = last.step
  /\ last'.target = "number"
  /\ last'.edit # NoEdit
  /\ last'.range.start = last.range.start
  /\ Ch(WrittenNumberText, 0) # "-"

\* the number the first adjustment found has at most one decimal digit
AtMostOneDecimalDigit(text) ==
  \E d \in 1..Len(text) :
    /\ OnlyOf(text, 0, d, Digits)
    /\ \/ d = Len(text)
       \/ /\ Ch(text, d) = "."
          /\ Len(text) <= d + 2
          /\ OnlyOf(text, d + 1, Len(text), Digits)

\* the number is written as the mutator writes it: an integer without a
\* leading zero, or such an integer, a point and one digit other than 0
PlainlyWritten(text) ==
  \E d \in 1..Len(text) :
    /\ OnlyOf(text, 0, d, Digits)
    /\ d > 1 => Ch(text, 0) # "0"
    /\ \/ d = Len(text)
       \/ /\ Ch(text, d) = "."
          /\ Len(text) = d + 2
          /\ Ch(text, d + 1) \in Digits \ {"0"}

\* C26, as stated: for a compound token whose number has at most one decimal
\* digit, with the step unchanged and all intermediate values >= 0, increment
\* followed by decrement (and decrement followed by increment) restores the
\* original token text, for each of the three steps
C26_InverseAdjustments ==
  [][(InversePair /\ AtMostOneDecimalDigit(OldNumberText)) => docLines' = last.doc]_vars

\* C26, amended: for a compound token whose number is written plainly (no
\* leading zero, no point without a digit other than 0 after it) and is an
\* integer or, with the 0.1 step, has one decimal digit, with the step
\* unchanged and all intermediate values >= 0, increment followed by decrement
\* (and decrement followed by increment) restores the original token text
C26_InverseOfPlainNumbers ==
  [][(/\ InversePair
      /\ PlainlyWritten(OldNumberText)
      /\ last.step = "tenth" \/ ~HasPoint(OldNumberText))
       => docLines' = last.doc]_vars

\* mt-0.5, decremented to mt-0.4 with the 0.1 step, was incremented to mt-0.5
\* again
C26_Witness ==
  /\ TailwindMutated
  /\ last.op = "incrementValue"
  /\ last.step = "tenth"
  /\ edits = 2
  /\ PreLine = <<"m", "t", "-", "0", ".", "4", " ", "x">>
  /\ PostLine = <<"m", "t", "-", "0", ".", "5", " ", "x">>

\* w-12, decremented to w-2 with the step of ten, was incremented to w-12
\* again
C26_WitnessTen ==
  /\ TailwindMutated
  /\ last.op = "incrementValue"
  /\ last.step = "ten"
  /\ edits = 2
  /\ PreLine = <<"w", "-", "2">>
  /\ PostLine = <<"w", "-", "1", "2">>


(***************************************************************************)
(* Runs of keyword adjustments                                             *)
(***************************************************************************)
\* the last command was an increment that rewrote a keyword the cursor was
\* inside of
IncrementedKeywordAtCursor ==
  /\ last.op = "incrementValue"
  /\ last.target = "property"
  /\ ContainsColumn(last.info, last.cursorCol)

\* the keyword the last command detected had no modifier after it, or one
\* with white space in front
ModifierAbsentOrApart ==
  Ch(last.doc[1], last.info.start + Len(last.info.value)) # "!"

\* the line holds `value`, in small letters, at column start
KeywordAt(start, value) ==
  ToLowerCase(Substring(PostLine, start, start + Len(value))) = value

\* the same of the origin of the run of keyword adjustments
OriginModifierAbsentOrApart ==
  Ch(nav.origin.text, nav.origin.start + Len(nav.origin.value)) # "!"

\* an increment of the keyword under the cursor is followed by an increment
\* of the keyword of the same declaration
SameDeclarationNext ==
  (IncrementedKeywordAtCursor /\ ModifierAbsentOrApart /\ last'.op = "incrementValue") =>
    /\ last'.target = "property"
    /\ last'.info.property = last.info.property
    /\ last'.info.start = last.info.start
    /\ ContainsColumn(last'.info, last'.cursorCol)

\* an increment of the keyword under the cursor followed by a decrement
\* writes the keyword there was
IncrementThenDecrement ==
  (IncrementedKeywordAtCursor /\ ModifierAbsentOrApart /\ last'.op = "decrementValue") =>
    /\ last'.target = "property"
    /\ last'.info.start = last.info.start
    /\ ToLowerCase(Substring(LineAt(docLines', cursorLine'), last.info.start,
                             last.info.start + Len(last.info.value)))
         = last.info.value
    /\ Ch(LineAt(docLines', cursorLine'), last.info.start + Len(last.info.value))
         \notin LowerLetters \cup {"-"}

\* as many increments as the family has members, begun with the cursor in the
\* keyword, were made
FullCycleMade ==
  /\ nav.dir = "increment"
  /\ nav.onOrigin
  /\ nav.count = Len(ValidValues(last.info.property))

FullCycleRestores ==
  (FullCycleMade /\ OriginModifierAbsentOrApart) =>
    /\ KeywordAt(nav.origin.start, nav.origin.value)
    /\ Ch(PostLine, nav.origin.start + Len(nav.origin.value)) \notin LowerLetters \cup {"-"}

\* C27: keyword full cycle: on a CSS-like line, an increment that rewrites the
\* keyword the cursor is inside of, whose modifier is absent or separated by
\* white space, leaves the cursor where the next increment rewrites the
\* keyword of the same declaration, also when the line holds numbers; as many
\* increments in a row as the family has members write the original keyword
\* again, and so does an increment followed by a decrement
C27_KeywordFullCycle ==
  /\ [][SameDeclarationNext /\ IncrementThenDecrement]_vars
  /\ []FullCycleRestores

\* six increments in a row went through the family of align-self and wrote
\* "auto" again, on a line that holds a number as well
C27_Witness ==
  /\ FullCycleMade
  /\ OriginModifierAbsentOrApart
  /\ nav.origin.value = Auto
  /\ nav.count = 6
  /\ KeywordAt(nav.origin.start, Auto)
  /\ \E i \in 0..(Len(PostLine) - 1) : Ch(PostLine, i) \in Digits


(***************************************************************************)
(* The inline buttons and the commands                                     *)
(***************************************************************************)
\* the provider returned lenses and the increment or the decrement command
\* ran next, at the same column of the active line
LensesThenAdjustment ==
  /\ Shown
  /\ activeLine = cursorLine
  /\ last'.op \in {"incrementValue", "decrementValue"}

\* the lenses hold the step indicator exactly when the command adjusts a
\* number
StepLensAgrees == HasStepLens <=> last'.target = "number"

\* the line the lenses were asked for holds a number and a keyword
NumberAndKeywordActive == hasActiveNumber /\ hasActivePropertyValue

\* C28 as stated: lens/adjustment agreement: for every cursor column on an
\* active line, the step-indicator lens is shown exactly when the increment or
\* decrement command invoked at that column adjusts a number rather than a
\* keyword, also on lines that hold both a number and a supported keyword
C28_LensAdjustmentAgreement ==
  [][LensesThenAdjustment => StepLensAgrees]_vars

\* the lenses and the commands agree on the lines that do not hold both a
\* number and a keyword
C28_AgreementOnOneKind ==
  [][(LensesThenAdjustment /\ ~NumberAndKeywordActive) => StepLensAgrees]_vars


(***************************************************************************)
(* The scan loops                                                          *)
(***************************************************************************)
\* the matches the loops of the three patterns go through on the queried
\* line, each from its index to the lastIndex it leaves
SpansOf(ms) == [k \in 1..Len(ms) |-> [start |-> ms[k].index, end |-> ms[k].end]]

CssNumberSpans == CssNumberMatches(QueriedLine, 0)

TailwindSpans == SpansOf(TailwindMatches(QueriedLine, 0))

PropertySpans == SpansOf(PropertyMatches(QueriedLine, 0))

\* every match takes a character at least, lastIndex grows with every match
\* and the loop makes no more turns than the line has characters
LoopEnds(spans) ==
  /\ \A k \in 1..Len(spans) :
       /\ 0 <= spans[k].start
       /\ spans[k].start < spans[k].end
       /\ spans[k].end <= Len(QueriedLine)
  /\ \A k \in 1..(Len(spans) - 1) :
       /\ spans[k].end <= spans[k + 1].start
       /\ spans[k].end < spans[k + 1].end
  /\ Len(spans) <= Len(QueriedLine)

\* C29: every scan loop terminates for every line: each match of the
\* declaration-number, compound-token and property-value patterns consumes at
\* least one character, so the match cursor strictly increases and each loop
\* ends after at most length(line) iterations
C29_ScanLoopsTerminate ==
  (Queried /\ QueriedLineInRange) =>
    /\ docLanguageId \in CssLikeLanguages =>
         LoopEnds(CssNumberSpans) /\ LoopEnds(PropertySpans)
    /\ isHtmlOrJsxLanguage(docLanguageId) => LoopEnds(TailwindSpans)

\* a line was scanned on which the pattern of property values matched twice,
\* the second time where the first match ended, and the pattern of numbers
\* matched as well
C29_Witness ==
  /\ Queried
  /\ QueriedLineInRange
  /\ docLanguageId \in CssLikeLanguages
  /\ Len(PropertySpans) = 2
  /\ PropertySpans[1].end = PropertySpans[2].start
  /\ Len(CssNumberSpans) >= 2

\* a page was scanned on which the pattern of utility classes matched three
\* times
C29_WitnessPage ==
  /\ Queried
  /\ QueriedLineInRange
  /\ isHtmlOrJsxLanguage(docLanguageId)
  /\ Len(TailwindSpans) = 3

====
